---- MODULE Spec2Model ----
(***************************************************************************)
(* Coin-toss API (dimes-api): the flip engine of routes/cointoss/flip.ts   *)
(* with the settings store, and the competition and winner handlers of     *)
(* routes/cointoss/competition.ts and competitions.ts.                     *)
(*                                                                         *)
(* Tables are sequences of rows; a row's id is its index.  Times are       *)
(* milliseconds.  A handler is split at its awaits, one action per         *)
(* database statement, so that overlapping requests interleave as they do  *)
(* on the server.  In the flip specifications three groups of statements   *)
(* are taken as one step each: the select-insert-select of the settings    *)
(* row at the start of a flip, the select of the latest flip together with *)
(* the session update that follows it, and the whole of GET /competition   *)
(* and of the settings handlers.  The competition specifications have GET  *)
(* /competition statement by statement.  A SELECT ... LIMIT 1 without      *)
(* ORDER BY returns any matching row, and rows that tie in an ORDER BY     *)
(* come in any order.                                                      *)
(*                                                                         *)
(* The flip specifications start from the empty database (Init) and, where *)
(* overlapping requests are explored, also from WarmDatabase, which        *)
(* SpecStreak reaches from Init after seven flips.  The competition        *)
(* specifications start from databases in which users have played runs of  *)
(* heads in the first competition (PlayedDatabase).  The leaderboard of    *)
(* routes/cointoss/leaderboard.ts, the reset of routes/cointoss/admin.ts   *)
(* and the in-memory audit log of utils/auditLog.ts have specifications of *)
(* their own from the same databases.                                      *)
(***************************************************************************)
EXTENDS Integers, Sequences, FiniteSets, TLC

VARIABLES now, settings, competitions, sessions, flips, achievements, req,
          spent, winners, presetPrizes, call, last, auditLogs

\* spent counts what the model has admitted so far (flip requests, clock
\* steps); it is bookkeeping for the bounds, not state of the program
vars == <<now, settings, competitions, sessions, flips, achievements, req,
          spent, winners, presetPrizes, call, last, auditLogs>>

\* what the flip engine and the settings store never touch: the winner and
\* preset-prize tables, the competition and winner handlers in progress and
\* the note of the handler that finished last, and the in-memory audit log
\* of the admin handlers
lifecycle == <<winners, presetPrizes, call, last, auditLogs>>

(***************************************************************************)
(* Bounds of the model.                                                    *)
(***************************************************************************)
NumRequests == 2
NumUsers == 1
MaxTicks == 3
MaxFlipRequests == 2
MaxSeqRequests == 3
MaxStreakRequests == 21
NumCalls == 2
MaxLifeTicks == 3
MaxLifeCalls == 2
MaxSeqCalls == 3
MaxWinCalls == 3
MaxManualCalls == 4
MaxManualTicks == 2
MaxSelectCalls == 3
MaxPrizeCalls == 3
MaxBoardRequests == 2
MaxBoardCalls == 1
MaxCloseRequests == 2
MaxCloseCalls == 1
MaxRaceRequests == 2
MaxLimitRequests == 3
MaxWinnersCalls == 2

\* partial updates PUT /settings is called with
SettingsUpdates ==
  {[dailyFailLimit |-> 0], [dailyFailLimit |-> 1],
   [maxFlipsPerMinute |-> 480, minStreakForLeaderboard |-> 1]}

Requests == 1..NumRequests
Users == 1..NumUsers
Calls == 1..NumCalls

(***************************************************************************)
(* Program constants.                                                      *)
(***************************************************************************)
NoTime == -1
MinFlipGapMs == 250
MinuteMs == 60000
FallbackMaxFlipsPerMinute == 240
FallbackDailyFailLimit == 3
FallbackMinStreak == 5
CompetitionDurationMs == 86400000
HourMs == 3600000
DefaultDurationHours == 24
DefaultTopCount == 3
ExpiredTopCount == 3
SystemUserId == 1
Milestones == {5, 10, 15, 20}

\* SQL NULL in a text column, and in a user-id column
Null == "null"
NoUser == 0
MaxAuditLogs == 1000

\* the played databases, preset-prize tables and request bodies the
\* competition specifications draw from
SeqRuns == {<< >>, <<5, 5, 2>>}
WinRuns == {<<12, 9, 9, 5, 2>>, <<5, 5, 2>>, <<4>>}
DurationHours == {12, DefaultDurationHours}
TopCounts == {1, DefaultTopCount}
BoardUsers == {NoUser, 1, 2, 3}
DefaultLimit == 10
Limits == {1, DefaultLimit}
LimitUpdates == {[dailyFailLimit |-> 0], [dailyFailLimit |-> 1]}
DurationUpdates == {[competitionDurationHours |-> 12]}
StreakUpdates == {[minStreakForLeaderboard |-> 0], [minStreakForLeaderboard |-> 1]}

\* single-field updates PUT /settings is called with, in and out of range
SettingsFields ==
  {"minStreakForLeaderboard", "competitionDurationHours", "maxFlipsPerMinute",
   "dailyFailLimit"}
RangeValues == {-1, 0, 1, 2}
RangeUpdates ==
  {[g \in {f} |-> v] : f \in SettingsFields, v \in RangeValues}

\* lists of winners POST /competitions/:id/winners is called with: entries
\* with and without a finalStreak, users with and without a session
WinnerLists ==
  {<<[userId |-> 2, finalStreak |-> 7], [userId |-> 1]>>,
   <<[userId |-> 3, finalStreak |-> 0], [userId |-> 4]>>}

\* the clock advances in steps of 125 ms, half the smallest flip gap
TickMs == MinFlipGapMs \div 2

\* settings row inserted by recordFlip when the table is empty
FlipDefaultSettings ==
  [minStreakForLeaderboard |-> 5, competitionDurationHours |-> 24,
   maxFlipsPerMinute |-> 240, dailyFailLimit |-> 3]

\* settings row inserted by getSettings when the table is empty
GetDefaultSettings ==
  [minStreakForLeaderboard |-> 5, competitionDurationHours |-> 24,
   maxFlipsPerMinute |-> 60, dailyFailLimit |-> 3]

(***************************************************************************)
(* Helpers.                                                                *)
(***************************************************************************)
\* JavaScript's  x || d  on a number: 0 (and null) fall through to d
JsOr(x, d) == IF x = 0 THEN d ELSE x

Max(a, b) == IF a >= b THEN a ELSE b

Abs(x) == IF x < 0 THEN -x ELSE x

\* timeSinceLastFlip < Math.max(250, 60000 / (maxFlipsPerMinute || 240)),
\* the real-valued quotient compared without rounding (a gap of a minute
\* or more is never below the quotient)
TooFast(timeSinceLastFlip, maxFlipsPerMinute) ==
  LET m == JsOr(maxFlipsPerMinute, FallbackMaxFlipsPerMinute)
  IN  \/ timeSinceLastFlip < MinFlipGapMs
      \/ /\ m > 0
         /\ timeSinceLastFlip < MinuteMs
         /\ timeSinceLastFlip * m < MinuteMs

\* result === 'tails' && dailyFailsUsed >= (settings.dailyFailLimit || 3)
DailyLimitReached(result, dailyFailsUsed, dailyFailLimit) ==
  /\ result = "tails"
  /\ dailyFailsUsed >= JsOr(dailyFailLimit, FallbackDailyFailLimit)

\* NewStreak with the slip of carrying the run over a change of side
NewStreakCarried(currentStreakType, result) ==
  IF result = "heads"
    THEN Abs(currentStreakType) + 1
    ELSE (IF currentStreakType < 0 THEN currentStreakType - 1 ELSE -1)

NewStreak(currentStreakType, result) ==
  IF result = "heads"
    THEN (IF currentStreakType > 0 THEN currentStreakType + 1 ELSE 1)
    ELSE (IF currentStreakType < 0 THEN currentStreakType - 1 ELSE -1)

NewBestHeadsStreak(bestHeadsStreak, newStreak, result) ==
  IF result = "heads" /\ newStreak > 0
    THEN Max(bestHeadsStreak, newStreak)
    ELSE bestHeadsStreak

NewBestTailsStreak(bestTailsStreak, newStreak, result) ==
  IF result = "tails" /\ newStreak < 0
    THEN Max(bestTailsStreak, Abs(newStreak))
    ELSE bestTailsStreak

IsOnLeaderboard(newBestHeadsStreak, minStreakForLeaderboard) ==
  newBestHeadsStreak >= JsOr(minStreakForLeaderboard, FallbackMinStreak)

\* the row of coin_toss_sessions inserted on a user's first flip
NewSession(competitionId, userId) ==
  [competitionId |-> competitionId, userId |-> userId,
   totalFlips |-> 0, totalHeads |-> 0, totalTails |-> 0,
   currentStreak |-> 0, bestHeadsStreak |-> 0, bestTailsStreak |-> 0,
   dailyFailsUsed |-> 0, lastFlipAt |-> NoTime]

\* UpdatedSession with the slip of leaving totalHeads out of the update
UpdatedSessionNoHeads(userSession, result, newStreak, at) ==
  [userSession EXCEPT
     !.totalFlips = userSession.totalFlips + 1,
     !.totalTails = IF result = "tails" THEN userSession.totalTails + 1
                                         ELSE userSession.totalTails,
     !.currentStreak = newStreak,
     !.bestHeadsStreak =
        NewBestHeadsStreak(userSession.bestHeadsStreak, newStreak, result),
     !.bestTailsStreak =
        NewBestTailsStreak(userSession.bestTailsStreak, newStreak, result),
     !.dailyFailsUsed = IF result = "tails" THEN userSession.dailyFailsUsed + 1
                                             ELSE userSession.dailyFailsUsed,
     !.lastFlipAt = at]

\* UpdatedSession with the slip of leaving totalTails out of the update
UpdatedSessionNoTails(userSession, result, newStreak, at) ==
  [userSession EXCEPT
     !.totalFlips = userSession.totalFlips + 1,
     !.totalHeads = IF result = "heads" THEN userSession.totalHeads + 1
                                         ELSE userSession.totalHeads,
     !.currentStreak = newStreak,
     !.bestHeadsStreak =
        NewBestHeadsStreak(userSession.bestHeadsStreak, newStreak, result),
     !.bestTailsStreak =
        NewBestTailsStreak(userSession.bestTailsStreak, newStreak, result),
     !.dailyFailsUsed = IF result = "tails" THEN userSession.dailyFailsUsed + 1
                                             ELSE userSession.dailyFailsUsed,
     !.lastFlipAt = at]

\* the row UPDATE coin_toss_sessions writes, computed from the row the
\* request read (userSession), not from the row now in the table
UpdatedSession(userSession, result, newStreak, at) ==
  [userSession EXCEPT
     !.totalFlips = userSession.totalFlips + 1,
     !.totalHeads = IF result = "heads" THEN userSession.totalHeads + 1
                                         ELSE userSession.totalHeads,
     !.totalTails = IF result = "tails" THEN userSession.totalTails + 1
                                         ELSE userSession.totalTails,
     !.currentStreak = newStreak,
     !.bestHeadsStreak =
        NewBestHeadsStreak(userSession.bestHeadsStreak, newStreak, result),
     !.bestTailsStreak =
        NewBestTailsStreak(userSession.bestTailsStreak, newStreak, result),
     !.dailyFailsUsed = IF result = "tails" THEN userSession.dailyFailsUsed + 1
                                             ELSE userSession.dailyFailsUsed,
     !.lastFlipAt = at]

\* the prize columns of a competition inserted without them
NoPrize == [prizeText |-> Null, prizeImageUrl |-> Null, requiresAddress |-> FALSE]

\* a row of coin_toss_competitions as the INSERTs of the handlers make it:
\* active, no players, no flips, the remaining columns at their defaults
CompetitionRow(startTime, endTime, prize) ==
  [startTime |-> startTime, endTime |-> endTime,
   isActive |-> TRUE, totalPlayers |-> 0, totalFlips |-> 0,
   winnerUserId |-> NoUser,
   prizeText |-> prize.prizeText, prizeImageUrl |-> prize.prizeImageUrl,
   requiresAddress |-> prize.requiresAddress,
   winnersSelected |-> FALSE, prizeDelivered |-> FALSE]

\* the row of coin_toss_competitions GET /competition inserts
NewCompetition(startTime) ==
  CompetitionRow(startTime, startTime + CompetitionDurationMs, NoPrize)

\* ids of the competitions the "active" query of a request at time t returns
ActiveCompetitions(t) ==
  {c \in DOMAIN competitions :
     /\ competitions[c].isActive
     /\ competitions[c].startTime <= t
     /\ competitions[c].endTime >= t}

\* ids of the session rows of a (competition, user) pair
SessionsOf(competitionId, userId) ==
  {s \in DOMAIN sessions :
     /\ sessions[s].competitionId = competitionId
     /\ sessions[s].userId = userId}

\* ids of the achievement rows of a (session, type) pair
AchievementsOf(sessionId, type) ==
  {a \in DOMAIN achievements :
     /\ achievements[a].sessionId = sessionId
     /\ achievements[a].achievementType = type}

NoResponse ==
  [status |-> 0, error |-> "none", achievements |-> {},
   isOnLeaderboard |-> FALSE]

\* a request slot with no request in it
IdleRequest ==
  [pc |-> "idle", userId |-> 0, now |-> 0, settings |-> FlipDefaultSettings,
   competitionId |-> 0, sessionId |-> 0, userSession |-> NewSession(0, 0),
   result |-> "none", newStreak |-> 0, flipId |-> 0, res |-> NoResponse]

\* the rows of coin_toss_preset_prizes the migration inserts, their texts
\* and image addresses shortened
SeededPrizes ==
  <<[name |-> "Mystery Prize Box", description |-> "A special mystery prize",
     imageUrl |-> "photo-1513475382585", isDefault |-> TRUE,
     isActive |-> TRUE, requiresAddress |-> FALSE],
    [name |-> "Digital Badge", description |-> "Exclusive digital winner badge",
     imageUrl |-> "photo-1556746834", isDefault |-> FALSE,
     isActive |-> TRUE, requiresAddress |-> FALSE],
    [name |-> "Coin Toss Champion", description |-> "Recognition as the champion",
     imageUrl |-> "photo-1590736969955", isDefault |-> FALSE,
     isActive |-> TRUE, requiresAddress |-> FALSE]>>

PrizeCatalogs == {<< >>, SeededPrizes}

\* userRank: null of getLeaderboard
NullRank == [isNull |-> TRUE, rank |-> 0, bestHeadsStreak |-> 0, totalHeads |-> 0]

\* a handler slot of the competition and winner routes with no call in it
IdleCall ==
  [op |-> "none", pc |-> "idle", now |-> 0, competitionId |-> 0,
   durationHours |-> 0, useDefaultPrize |-> FALSE, prize |-> NoPrize,
   topCount |-> 0, minStreak |-> 0, expired |-> {}, unselected |-> {},
   closed |-> {}, topPlayers |-> << >>, leaderboard |-> << >>,
   inserted |-> {}, status |-> 0, error |-> "none",
   winnerList |-> << >>, winnersWithStreaks |-> << >>, before |-> {},
   competition |-> CompetitionRow(0, 0, NoPrize),
   derived |-> [status |-> "none", timeRemaining |-> 0],
   prizeId |-> 0, isDefault |-> FALSE, isActive |-> FALSE,
   userId |-> NoUser, limit |-> 0, query |-> 0,
   userSession |-> [bestHeadsStreak |-> 0, totalHeads |-> 0],
   userRank |-> NullRank]

\* closed, inserted and before are notes of what the call has done so far:
\* the competitions it set inactive, the rows it inserted and the winner
\* rows its competition had when it arrived

\* no handler of the competition and winner routes has finished yet
NoCall == [op |-> "none", now |-> 0, status |-> 0, closed |-> {}]

NothingSpent == [requests |-> 0, ticks |-> 0, calls |-> 0]

InFlight == {r \in Requests : req[r].pc \notin {"idle", "done"}}

Respond(r, status, error) ==
  req' = [req EXCEPT ![r].pc = "done",
                     ![r].res = [NoResponse EXCEPT !.status = status,
                                                   !.error = error]]

(***************************************************************************)
(* Initial state: an empty database, no request in progress.               *)
(***************************************************************************)
Init ==
  /\ now = 0
  /\ settings = << >>
  /\ competitions = << >>
  /\ sessions = << >>
  /\ flips = << >>
  /\ achievements = << >>
  /\ req = [r \in Requests |-> IdleRequest]
  /\ spent = NothingSpent
  /\ winners = << >>
  /\ presetPrizes = SeededPrizes
  /\ call = [k \in Calls |-> IdleCall]
  /\ last = NoCall
  /\ auditLogs = << >>

\* A database the program reaches: user 1 has played seven paced flips in
\* competition 1 - tails, tails, tails, heads, heads, heads, heads - one
\* every 250 ms from time 0, and another 250 ms have passed.
WarmResult(i) == IF i <= 3 THEN "tails" ELSE "heads"

WarmFlips ==
  [i \in 1..7 |->
     [sessionId |-> 1, userId |-> 1, result |-> WarmResult(i),
      streakCount |-> IF i <= 3 THEN i ELSE i - 3,
      flippedAt |-> (i - 1) * MinFlipGapMs]]

WarmDatabase ==
  /\ now = 7 * MinFlipGapMs
  /\ settings = <<FlipDefaultSettings>>
  /\ competitions = <<[NewCompetition(0) EXCEPT !.totalPlayers = 1,
                                                !.totalFlips = 7]>>
  /\ sessions = <<[competitionId |-> 1, userId |-> 1,
                   totalFlips |-> 7, totalHeads |-> 4, totalTails |-> 3,
                   currentStreak |-> 4, bestHeadsStreak |-> 4,
                   bestTailsStreak |-> 3, dailyFailsUsed |-> 3,
                   lastFlipAt |-> 6 * MinFlipGapMs]>>
  /\ flips = WarmFlips
  /\ achievements = << >>
  /\ req = [r \in Requests |-> IdleRequest]
  /\ winners = << >>
  /\ presetPrizes = SeededPrizes
  /\ call = [k \in Calls |-> IdleCall]
  /\ last = NoCall
  /\ auditLogs = << >>

WarmInit ==
  /\ WarmDatabase
  /\ spent = NothingSpent

(***************************************************************************)
(* The clock.                                                              *)
(***************************************************************************)
Tick ==
  /\ spent.ticks < MaxTicks
  /\ now' = now + TickMs
  /\ spent' = [spent EXCEPT !.ticks = @ + 1]
  /\ UNCHANGED <<settings, competitions, sessions, flips, achievements, req, lifecycle>>

\* the client of the one-at-a-time specification: it waits out the
\* smallest flip gap after a flip was recorded, and only between requests
PacedTick ==
  /\ InFlight = {}
  /\ \E s \in DOMAIN sessions : sessions[s].lastFlipAt = now
  /\ now' = now + MinFlipGapMs
  /\ UNCHANGED <<settings, competitions, sessions, flips, achievements, req, spent, lifecycle>>

(***************************************************************************)
(* Settings store (routes/cointoss/settings.ts).                           *)
(***************************************************************************)
Has(updates, f) == f \in DOMAIN updates

\* the four range checks of updateSettings; a 0 is falsy and passes the
\* first three
ValidUpdate(updates) ==
  /\ ~(Has(updates, "minStreakForLeaderboard")
         /\ updates.minStreakForLeaderboard # 0
         /\ updates.minStreakForLeaderboard < 1)
  /\ ~(Has(updates, "competitionDurationHours")
         /\ updates.competitionDurationHours # 0
         /\ updates.competitionDurationHours < 1)
  /\ ~(Has(updates, "maxFlipsPerMinute")
         /\ updates.maxFlipsPerMinute # 0
         /\ updates.maxFlipsPerMinute < 1)
  /\ ~(Has(updates, "dailyFailLimit") /\ updates.dailyFailLimit < 0)

\* the row inserted by updateSettings when the table is empty
CreatedSettings(updates) ==
  [minStreakForLeaderboard |->
     IF Has(updates, "minStreakForLeaderboard")
       THEN JsOr(updates.minStreakForLeaderboard, 5) ELSE 5,
   competitionDurationHours |->
     IF Has(updates, "competitionDurationHours")
       THEN JsOr(updates.competitionDurationHours, 24) ELSE 24,
   maxFlipsPerMinute |->
     IF Has(updates, "maxFlipsPerMinute")
       THEN JsOr(updates.maxFlipsPerMinute, 60) ELSE 60,
   dailyFailLimit |->
     IF Has(updates, "dailyFailLimit") THEN updates.dailyFailLimit ELSE 3]

\* the row after UPDATE ... SET of the provided fields only
MergedSettings(row, updates) ==
  [f \in DOMAIN row |-> IF Has(updates, f) THEN updates[f] ELSE row[f]]

GetSettings ==
  /\ Len(settings) = 0
  /\ settings' = <<GetDefaultSettings>>
  /\ UNCHANGED <<now, competitions, sessions, flips, achievements, req, spent, lifecycle>>

UpdateSettingsWith(updates) ==
  /\ ValidUpdate(updates)
  /\ settings' = IF Len(settings) = 0
                   THEN <<CreatedSettings(updates)>>
                   ELSE [settings EXCEPT ![1] = MergedSettings(settings[1], updates)]
  /\ settings' # settings
  /\ UNCHANGED <<now, competitions, sessions, flips, achievements, req, spent, lifecycle>>

UpdateSettings == \E updates \in SettingsUpdates : UpdateSettingsWith(updates)

(***************************************************************************)
(* GET /competition (routes/cointoss/competition.ts): returns the active   *)
(* competition covering now and creates one when there is none.            *)
(***************************************************************************)
GetCompetition ==
  /\ ActiveCompetitions(now) = {}
  /\ competitions' = Append(competitions, NewCompetition(now))
  /\ UNCHANGED <<now, settings, sessions, flips, achievements, req, spent, lifecycle>>

(***************************************************************************)
(* POST /flip (routes/cointoss/flip.ts, recordFlip), one action per await. *)
(***************************************************************************)
\* no verified user on the request: 401 before anything else
FlipUnauthenticated(r) ==
  /\ req[r].pc = "idle"
  /\ Respond(r, 401, "Please connect your wallet to play")
  /\ UNCHANGED <<now, settings, competitions, sessions, flips, achievements, spent, lifecycle>>

\* the request arrives: now is taken, the settings row is read (and
\* inserted with the flip defaults when the table is empty)
StartFlip(r, u, cap) ==
  /\ req[r].pc = "idle"
  /\ spent.requests < cap
  /\ spent' = [spent EXCEPT !.requests = @ + 1]
  /\ settings' = IF Len(settings) = 0 THEN <<FlipDefaultSettings>> ELSE settings
  /\ req' = [req EXCEPT ![r] = [IdleRequest EXCEPT !.pc = "competition",
                                                   !.userId = u,
                                                   !.now = now,
                                                   !.settings = settings'[1]]]
  /\ UNCHANGED <<now, competitions, sessions, flips, achievements, lifecycle>>

\* SELECT the active competition covering the request's now, LIMIT 1
FindCompetition(r) ==
  /\ req[r].pc = "competition"
  /\ IF ActiveCompetitions(req[r].now) = {}
       THEN Respond(r, 400, "No active competition")
       ELSE \E c \in ActiveCompetitions(req[r].now) :
              req' = [req EXCEPT ![r].pc = "session", ![r].competitionId = c]
  /\ UNCHANGED <<now, settings, competitions, sessions, flips, achievements, spent, lifecycle>>

\* SELECT the user's session of that competition, LIMIT 1 (no ORDER BY:
\* any matching row)
FindSession(r) ==
  /\ req[r].pc = "session"
  /\ LET rows == SessionsOf(req[r].competitionId, req[r].userId)
     IN  IF rows = {}
           THEN req' = [req EXCEPT ![r].pc = "createSession"]
           ELSE \E s \in rows :
                  req' = [req EXCEPT ![r].pc = "decide",
                                     ![r].sessionId = s,
                                     ![r].userSession = sessions[s]]
  /\ UNCHANGED <<now, settings, competitions, sessions, flips, achievements, spent, lifecycle>>

\* INSERT the zeroed session row
CreateSession(r) ==
  /\ req[r].pc = "createSession"
  /\ sessions' = Append(sessions, NewSession(req[r].competitionId, req[r].userId))
  /\ req' = [req EXCEPT ![r].pc = "rereadSession"]
  /\ UNCHANGED <<now, settings, competitions, flips, achievements, spent, lifecycle>>

\* SELECT "the newly created session": again any row of the pair
RereadSession(r) ==
  /\ req[r].pc = "rereadSession"
  /\ \E s \in SessionsOf(req[r].competitionId, req[r].userId) :
       req' = [req EXCEPT ![r].pc = "incPlayers",
                          ![r].sessionId = s,
                          ![r].userSession = sessions[s]]
  /\ UNCHANGED <<now, settings, competitions, sessions, flips, achievements, spent, lifecycle>>

\* UPDATE competition SET totalPlayers = totalPlayers + 1
IncPlayers(r) ==
  /\ req[r].pc = "incPlayers"
  /\ competitions' = [competitions EXCEPT ![req[r].competitionId].totalPlayers = @ + 1]
  /\ req' = [req EXCEPT ![r].pc = "decide"]
  /\ UNCHANGED <<now, settings, sessions, flips, achievements, spent, lifecycle>>

\* the rate-limit check on the row the request read
RateLimited(r) ==
  /\ req[r].userSession.lastFlipAt # NoTime
  /\ TooFast(req[r].now - req[r].userSession.lastFlipAt,
             req[r].settings.maxFlipsPerMinute)

RejectTooFast(r) ==
  /\ req[r].pc = "decide"
  /\ RateLimited(r)
  /\ Respond(r, 429, "Too fast")
  /\ UNCHANGED <<now, settings, competitions, sessions, flips, achievements, spent, lifecycle>>

\* RejectDailyLimit with the slip of counting the fail before rejecting it
RejectDailyLimitCounted(r) ==
  /\ req[r].pc = "decide"
  /\ ~RateLimited(r)
  /\ DailyLimitReached("tails", req[r].userSession.dailyFailsUsed,
                       req[r].settings.dailyFailLimit)
  /\ sessions' = [sessions EXCEPT ![req[r].sessionId].dailyFailsUsed = @ + 1]
  /\ req' = [req EXCEPT ![r].pc = "done",
                        ![r].result = "tails",
                        ![r].res = [NoResponse EXCEPT !.status = 429,
                                                      !.error = "Daily fail limit reached"]]
  /\ UNCHANGED <<now, settings, competitions, flips, achievements, spent, lifecycle>>

\* the coin came up tails and the daily-fail gate is closed
RejectDailyLimit(r) ==
  /\ req[r].pc = "decide"
  /\ ~RateLimited(r)
  /\ DailyLimitReached("tails", req[r].userSession.dailyFailsUsed,
                       req[r].settings.dailyFailLimit)
  /\ req' = [req EXCEPT ![r].pc = "done",
                        ![r].result = "tails",
                        ![r].res = [NoResponse EXCEPT !.status = 429,
                                                      !.error = "Daily fail limit reached"]]
  /\ UNCHANGED <<now, settings, competitions, sessions, flips, achievements, spent, lifecycle>>

\* the flip is accepted: the streak is computed from the row the request
\* read and the Flip row is inserted
InsertFlip(r, result) ==
  /\ req[r].pc = "decide"
  /\ ~RateLimited(r)
  /\ ~DailyLimitReached(result, req[r].userSession.dailyFailsUsed,
                        req[r].settings.dailyFailLimit)
  /\ LET newStreak == NewStreak(req[r].userSession.currentStreak, result)
     IN  /\ flips' = Append(flips, [sessionId |-> req[r].sessionId,
                                    userId |-> req[r].userId,
                                    result |-> result,
                                    streakCount |-> Abs(newStreak),
                                    flippedAt |-> req[r].now])
         /\ req' = [req EXCEPT ![r].pc = "updateSession",
                               ![r].result = result,
                               ![r].newStreak = newStreak]
  /\ UNCHANGED <<now, settings, competitions, sessions, achievements, spent, lifecycle>>

\* id of the latest Flip row of a session (ORDER BY id DESC LIMIT 1)
LatestFlipOf(sessionId) ==
  LET ids == {f \in DOMAIN flips : flips[f].sessionId = sessionId}
  IN  CHOOSE f \in ids : \A g \in ids : g <= f

\* SELECT the latest flip of the session, then UPDATE the session row with
\* the values computed from the row the request read
UpdateSession(r) ==
  /\ req[r].pc = "updateSession"
  /\ sessions' = [sessions EXCEPT ![req[r].sessionId] =
                    UpdatedSession(req[r].userSession, req[r].result,
                                   req[r].newStreak, req[r].now)]
  /\ req' = [req EXCEPT ![r].pc = "incFlips",
                        ![r].flipId = LatestFlipOf(req[r].sessionId)]
  /\ UNCHANGED <<now, settings, competitions, flips, achievements, spent, lifecycle>>

\* the response of an accepted flip
FlipResponse(r, unlocked) ==
  [status |-> 200, error |-> "none", achievements |-> unlocked,
   isOnLeaderboard |->
     IsOnLeaderboard(NewBestHeadsStreak(req[r].userSession.bestHeadsStreak,
                                        req[r].newStreak, req[r].result),
                     req[r].settings.minStreakForLeaderboard)]

\* the milestone loop selects only when newStreak is a milestone of heads
AtMilestone(newStreak) == newStreak > 0 /\ Abs(newStreak) \in Milestones

\* UPDATE competition SET totalFlips = totalFlips + 1; off a milestone the
\* loop does nothing and the response follows
IncFlips(r) ==
  /\ req[r].pc = "incFlips"
  /\ competitions' = [competitions EXCEPT ![req[r].competitionId].totalFlips = @ + 1]
  /\ req' = IF AtMilestone(req[r].newStreak)
              THEN [req EXCEPT ![r].pc = "checkAchievement"]
              ELSE [req EXCEPT ![r].pc = "done", ![r].res = FlipResponse(r, {})]
  /\ UNCHANGED <<now, settings, sessions, flips, achievements, spent, lifecycle>>

\* CheckAchievement with the slip of not looking for an existing row
CheckAchievementUnguarded(r) ==
  /\ req[r].pc = "checkAchievement"
  /\ req' = [req EXCEPT ![r].pc = "insertAchievement"]
  /\ UNCHANGED <<now, settings, competitions, sessions, flips, achievements, spent, lifecycle>>

\* SELECT an existing achievement of (session, type)
CheckAchievement(r) ==
  /\ req[r].pc = "checkAchievement"
  /\ req' = IF AchievementsOf(req[r].sessionId, req[r].newStreak) # {}
              THEN [req EXCEPT ![r].pc = "done", ![r].res = FlipResponse(r, {})]
              ELSE [req EXCEPT ![r].pc = "insertAchievement"]
  /\ UNCHANGED <<now, settings, competitions, sessions, flips, achievements, spent, lifecycle>>

\* INSERT the achievement and report it
InsertAchievement(r) ==
  /\ req[r].pc = "insertAchievement"
  /\ achievements' = Append(achievements,
                            [sessionId |-> req[r].sessionId,
                             userId |-> req[r].userId,
                             achievementType |-> req[r].newStreak,
                             streakValue |-> req[r].newStreak,
                             achievedAt |-> req[r].now])
  /\ req' = [req EXCEPT ![r].pc = "done",
                        ![r].res = FlipResponse(r, {req[r].newStreak})]
  /\ UNCHANGED <<now, settings, competitions, sessions, flips, spent, lifecycle>>

\* the response is delivered and the slot is free again
Finish(r) ==
  /\ req[r].pc = "done"
  /\ req' = [req EXCEPT ![r] = IdleRequest]
  /\ UNCHANGED <<now, settings, competitions, sessions, flips, achievements, spent, lifecycle>>

\* one step of the request in slot r
FlipStep(r) ==
  \/ FindCompetition(r)
  \/ FindSession(r)
  \/ CreateSession(r)
  \/ RereadSession(r)
  \/ IncPlayers(r)
  \/ RejectTooFast(r)
  \/ RejectDailyLimit(r)
  \/ \E result \in {"heads", "tails"} : InsertFlip(r, result)
  \/ UpdateSession(r)
  \/ IncFlips(r)
  \/ CheckAchievement(r)
  \/ InsertAchievement(r)
  \/ Finish(r)

(***************************************************************************)
(* Competition and winner handlers (competition.ts in its version with the *)
(* default-prize lookup, competitions.ts), one action per await.  A call   *)
(* occupies a slot of call from its first statement to its response.       *)
(***************************************************************************)
\* the clock of the competition specifications advances by half the
\* duration of a competition
LifeTickMs == CompetitionDurationMs \div 2

LifeTick ==
  /\ spent.ticks < MaxLifeTicks
  /\ now' = now + LifeTickMs
  /\ spent' = [spent EXCEPT !.ticks = @ + 1]
  /\ UNCHANGED <<settings, competitions, sessions, flips, achievements, req, lifecycle>>

Min(a, b) == IF a <= b THEN a ELSE b

\* a call is admitted into the free slot k
Admit(k, cap) ==
  /\ call[k].pc = "idle"
  /\ spent.calls < cap
  /\ spent' = [spent EXCEPT !.calls = @ + 1]

\* the call of handler op in slot k, at its first statement
NewCall(op) == [IdleCall EXCEPT !.op = op, !.now = now]

At(k, op, pc) == call[k].op = op /\ call[k].pc = pc

Responded(c, status, error) ==
  [c EXCEPT !.pc = "done", !.status = status, !.error = error]

\* utils/auditLog.ts, logAdminAction: the entry is pushed onto the in-memory
\* log, which keeps its last MaxAuditLogs entries
AuditEntry(action, resource, resourceId, success) ==
  [userId |-> SystemUserId, action |-> action, resource |-> resource,
   resourceId |-> resourceId, success |-> success]

LogAdminAction(action, resource, resourceId, success) ==
  LET pushed == Append(auditLogs,
                       AuditEntry(action, resource, resourceId, success))
  IN  auditLogs' = IF Len(pushed) > MaxAuditLogs THEN Tail(pushed) ELSE pushed

\* ids of the competitions with isActive = true
ActiveIds == {c \in DOMAIN competitions : competitions[c].isActive}

\* WHERE isActive = true ORDER BY id DESC LIMIT 1
LatestActive == CHOOSE c \in ActiveIds : \A d \in ActiveIds : d <= c

\* ids of the preset prizes that are default and active
DefaultPrizes ==
  {p \in DOMAIN presetPrizes :
     presetPrizes[p].isDefault /\ presetPrizes[p].isActive}

\* the prize columns taken from a preset prize
PrizeOf(p) ==
  [prizeText |-> presetPrizes[p].description,
   prizeImageUrl |-> presetPrizes[p].imageUrl,
   requiresAddress |-> presetPrizes[p].requiresAddress]

\* SELECT the default active prize, LIMIT 1; none leaves the nulls
LookedUpPrizes ==
  IF DefaultPrizes = {} THEN {NoPrize} ELSE {PrizeOf(p) : p \in DefaultPrizes}

\* GET /competition -------------------------------------------------------
\* SELECT the active competition covering now, LIMIT 1; a competition found
\* has endTime >= now and is returned
GetCompetitionFind(k, cap) ==
  /\ Admit(k, cap)
  /\ IF ActiveCompetitions(now) = {}
       THEN call' = [call EXCEPT ![k] =
                       [NewCall("getCompetition") EXCEPT !.pc = "insert"]]
       ELSE \E c \in ActiveCompetitions(now) :
              call' = [call EXCEPT ![k] =
                         Responded([NewCall("getCompetition") EXCEPT
                                      !.competitionId = c], 200, "none")]
  /\ UNCHANGED <<now, settings, competitions, sessions, flips, achievements,
                 req, winners, presetPrizes, last, auditLogs>>

\* none found: INSERT a competition of 24 hours from the call's now
GetCompetitionInsert(k) ==
  /\ At(k, "getCompetition", "insert")
  /\ competitions' = Append(competitions, NewCompetition(call[k].now))
  /\ call' = [call EXCEPT ![k].pc = "reselect",
                          ![k].inserted = @ \cup {Len(competitions) + 1}]
  /\ UNCHANGED <<now, settings, sessions, flips, achievements, req, spent,
                 winners, presetPrizes, last, auditLogs>>

\* SELECT "the newly created competition": the active one of highest id;
\* with none, competition.endTime throws and the answer is 500
GetCompetitionReselect(k) ==
  /\ At(k, "getCompetition", "reselect")
  /\ call' =
       IF ActiveIds = {}
         THEN [call EXCEPT ![k] = Responded(@, 500, "Failed to fetch competition")]
         ELSE IF competitions[LatestActive].endTime < call[k].now
           THEN [call EXCEPT ![k].pc = "markInactive",
                             ![k].competitionId = LatestActive]
           ELSE [call EXCEPT ![k] =
                   Responded([@ EXCEPT !.competitionId = LatestActive],
                             200, "none")]
  /\ UNCHANGED <<now, settings, competitions, sessions, flips, achievements,
                 req, spent, winners, presetPrizes, last, auditLogs>>

\* the competition read has ended: UPDATE it to inactive
GetCompetitionMarkInactive(k) ==
  /\ At(k, "getCompetition", "markInactive")
  /\ competitions' = [competitions EXCEPT ![call[k].competitionId].isActive = FALSE]
  /\ call' = [call EXCEPT ![k].pc = "prize",
                          ![k].closed = @ \cup {call[k].competitionId}]
  /\ UNCHANGED <<now, settings, sessions, flips, achievements, req, spent,
                 winners, presetPrizes, last, auditLogs>>

\* SELECT the default active prize for the replacement
GetCompetitionPrize(k) ==
  /\ At(k, "getCompetition", "prize")
  /\ \E prize \in LookedUpPrizes :
       call' = [call EXCEPT ![k].pc = "insertReplacement", ![k].prize = prize]
  /\ UNCHANGED <<now, settings, competitions, sessions, flips, achievements,
                 req, spent, winners, presetPrizes, last, auditLogs>>

\* INSERT the replacement of 24 hours with the prize looked up
GetCompetitionInsertReplacement(k) ==
  /\ At(k, "getCompetition", "insertReplacement")
  /\ competitions' =
       Append(competitions,
              CompetitionRow(call[k].now, call[k].now + CompetitionDurationMs,
                             call[k].prize))
  /\ call' = [call EXCEPT ![k].pc = "reselectReplacement",
                          ![k].inserted = @ \cup {Len(competitions) + 1}]
  /\ UNCHANGED <<now, settings, sessions, flips, achievements, req, spent,
                 winners, presetPrizes, last, auditLogs>>

GetCompetitionReselectReplacement(k) ==
  /\ At(k, "getCompetition", "reselectReplacement")
  /\ call' =
       IF ActiveIds = {}
         THEN [call EXCEPT ![k] = Responded(@, 500, "Failed to fetch competition")]
         ELSE [call EXCEPT ![k] =
                 Responded([@ EXCEPT !.competitionId = LatestActive], 200, "none")]
  /\ UNCHANGED <<now, settings, competitions, sessions, flips, achievements,
                 req, spent, winners, presetPrizes, last, auditLogs>>

\* the statements of GET /competition after the first that one call at a
\* time reaches, and those only overlapping calls reach
GetCompetitionStep(k) ==
  \/ GetCompetitionInsert(k)
  \/ GetCompetitionReselect(k)

GetCompetitionStaleStep(k) ==
  \/ GetCompetitionMarkInactive(k)
  \/ GetCompetitionPrize(k)
  \/ GetCompetitionInsertReplacement(k)
  \/ GetCompetitionReselectReplacement(k)

\* POST /competition ------------------------------------------------------
\* CreateCompetitionEndActive with the slip of ending only the active
\* competition of highest id
CreateCompetitionEndLatest(k, cap, durationHours, useDefaultPrize) ==
  /\ Admit(k, cap)
  /\ competitions' =
       [c \in DOMAIN competitions |->
          IF c \in ActiveIds /\ c = LatestActive
            THEN [competitions[c] EXCEPT !.isActive = FALSE]
            ELSE competitions[c]]
  /\ call' = [call EXCEPT ![k] =
                [NewCall("createCompetition") EXCEPT
                   !.closed = ActiveIds,
                   !.durationHours = durationHours,
                   !.useDefaultPrize = useDefaultPrize,
                   !.pc = IF useDefaultPrize THEN "prize" ELSE "insert"]]
  /\ UNCHANGED <<now, settings, sessions, flips, achievements, req, winners,
                 presetPrizes, last, auditLogs>>

\* the body is { durationHours = 24, useDefaultPrize = true }; UPDATE every
\* active competition to inactive
CreateCompetitionEndActive(k, cap, durationHours, useDefaultPrize) ==
  /\ Admit(k, cap)
  /\ competitions' =
       [c \in DOMAIN competitions |-> [competitions[c] EXCEPT !.isActive = FALSE]]
  /\ call' = [call EXCEPT ![k] =
                [NewCall("createCompetition") EXCEPT
                   !.closed = ActiveIds,
                   !.durationHours = durationHours,
                   !.useDefaultPrize = useDefaultPrize,
                   !.pc = IF useDefaultPrize THEN "prize" ELSE "insert"]]
  /\ UNCHANGED <<now, settings, sessions, flips, achievements, req, winners,
                 presetPrizes, last, auditLogs>>

CreateCompetitionPrize(k) ==
  /\ At(k, "createCompetition", "prize")
  /\ \E prize \in LookedUpPrizes :
       call' = [call EXCEPT ![k].pc = "insert", ![k].prize = prize]
  /\ UNCHANGED <<now, settings, competitions, sessions, flips, achievements,
                 req, spent, winners, presetPrizes, last, auditLogs>>

\* INSERT the competition of durationHours from the call's now
CreateCompetitionInsert(k) ==
  /\ At(k, "createCompetition", "insert")
  /\ competitions' =
       Append(competitions,
              CompetitionRow(call[k].now,
                             call[k].now + call[k].durationHours * HourMs,
                             call[k].prize))
  /\ call' = [call EXCEPT ![k].pc = "reselect",
                          ![k].inserted = @ \cup {Len(competitions) + 1}]
  /\ UNCHANGED <<now, settings, sessions, flips, achievements, req, spent,
                 winners, presetPrizes, last, auditLogs>>

\* SELECT the active competition of highest id for the audit entry and the
\* response; with none, competition.id throws and the answer is 500
CreateCompetitionReselect(k) ==
  /\ At(k, "createCompetition", "reselect")
  /\ call' =
       IF ActiveIds = {}
         THEN [call EXCEPT ![k] = Responded(@, 500, "Failed to create competition")]
         ELSE [call EXCEPT ![k] =
                 Responded([@ EXCEPT !.competitionId = LatestActive], 200, "none")]
  /\ IF ActiveIds = {}
       THEN UNCHANGED auditLogs
       ELSE LogAdminAction("CREATE_COMPETITION", "competition",
                           LatestActive, TRUE)
  /\ UNCHANGED <<now, settings, competitions, sessions, flips, achievements,
                 req, spent, winners, presetPrizes, last>>

CreateCompetitionStep(k) ==
  \/ CreateCompetitionPrize(k)
  \/ CreateCompetitionInsert(k)
  \/ CreateCompetitionReselect(k)

\* POST /competitions/:id/end ---------------------------------------------
\* b is ranked strictly ahead of a: ORDER BY bestHeadsStreak DESC and, in
\* the leaderboard of endCompetition, totalFlips DESC
Ahead(b, a, byFlips) ==
  \/ sessions[b].bestHeadsStreak > sessions[a].bestHeadsStreak
  \/ /\ byFlips
     /\ sessions[b].bestHeadsStreak = sessions[a].bestHeadsStreak
     /\ sessions[b].totalFlips > sessions[a].totalFlips

\* the results ORDER BY ... LIMIT n can give on the session ids S: rows
\* equal in the ordering come in any order
RECURSIVE RankOrders(_, _, _)
RankOrders(S, n, byFlips) ==
  IF n = 0 \/ S = {}
    THEN {<< >>}
    ELSE UNION {{<<s>> \o rest : rest \in RankOrders(S \ {s}, n - 1, byFlips)} :
                  s \in {a \in S : \A b \in S : ~Ahead(b, a, byFlips)}}

\* ids of the sessions of a competition with at least one flip
PlayersOf(competitionId) ==
  {s \in DOMAIN sessions :
     /\ sessions[s].competitionId = competitionId
     /\ sessions[s].totalFlips >= 1}

\* SELECT the competition: 404 without it, 400 when it is inactive
EndCompetitionFind(k, cap, id) ==
  /\ Admit(k, cap)
  /\ LET c == [NewCall("endCompetition") EXCEPT !.competitionId = id]
     IN  call' = [call EXCEPT ![k] =
                    IF id \notin DOMAIN competitions
                      THEN Responded(c, 404, "Competition not found")
                      ELSE IF ~competitions[id].isActive
                        THEN Responded(c, 400, "Competition is already ended")
                        ELSE [c EXCEPT !.pc = "leaderboard"]]
  /\ UNCHANGED <<now, settings, competitions, sessions, flips, achievements,
                 req, winners, presetPrizes, last, auditLogs>>

\* SELECT the players of the competition in leaderboard order
EndCompetitionLeaderboard(k) ==
  /\ At(k, "endCompetition", "leaderboard")
  /\ LET players == PlayersOf(call[k].competitionId)
     IN  \E order \in RankOrders(players, Cardinality(players), TRUE) :
           call' = [call EXCEPT ![k].pc = "update", ![k].leaderboard = order]
  /\ UNCHANGED <<now, settings, competitions, sessions, flips, achievements,
                 req, spent, winners, presetPrizes, last, auditLogs>>

\* EndCompetitionUpdate with the slip of leaving endTime as it was
EndCompetitionUpdateKeepsEndTime(k) ==
  /\ At(k, "endCompetition", "update")
  /\ competitions' = [competitions EXCEPT
                        ![call[k].competitionId].isActive = FALSE]
  /\ call' = [call EXCEPT ![k] = Responded(@, 200, "none")]
  /\ UNCHANGED <<now, settings, sessions, flips, achievements, req, spent,
                 winners, presetPrizes, last, auditLogs>>

\* UPDATE the competition: inactive, ended at the time of the statement
EndCompetitionUpdate(k) ==
  /\ At(k, "endCompetition", "update")
  /\ competitions' = [competitions EXCEPT
                        ![call[k].competitionId].isActive = FALSE,
                        ![call[k].competitionId].endTime = now]
  /\ call' = [call EXCEPT ![k] = Responded(@, 200, "none")]
  /\ UNCHANGED <<now, settings, sessions, flips, achievements, req, spent,
                 winners, presetPrizes, last, auditLogs>>

EndCompetitionStep(k) ==
  \/ EndCompetitionLeaderboard(k)
  \/ EndCompetitionUpdate(k)

\* winner selection (competitions.ts) -------------------------------------
\* settings?.minStreakForLeaderboard || 5
MinStreak ==
  IF Len(settings) = 0
    THEN FallbackMinStreak
    ELSE JsOr(settings[1].minStreakForLeaderboard, FallbackMinStreak)

\* ids of the sessions of a competition with bestHeadsStreak >= minStreak
EligibleSessions(competitionId, minStreak) ==
  {s \in DOMAIN sessions :
     /\ sessions[s].competitionId = competitionId
     /\ sessions[s].bestHeadsStreak >= minStreak}

\* the results of SELECT userId, bestHeadsStreak ... ORDER BY
\* bestHeadsStreak DESC LIMIT limit
TopPlayers(competitionId, minStreak, limit) ==
  LET eligible == EligibleSessions(competitionId, minStreak)
  IN  {[i \in DOMAIN order |->
          [userId |-> sessions[order[i]].userId,
           bestHeadsStreak |-> sessions[order[i]].bestHeadsStreak]] :
         order \in RankOrders(eligible, Min(limit, Cardinality(eligible)), FALSE)}

\* WinnersData with the slip of numbering the positions from 0
WinnersDataFromZero(competitionId, topPlayers) ==
  [i \in DOMAIN topPlayers |->
     [competitionId |-> competitionId,
      userId |-> topPlayers[i].userId,
      finalStreak |-> JsOr(topPlayers[i].bestHeadsStreak, 0),
      position |-> i - 1,
      selectedById |-> SystemUserId]]

\* the winner rows made of the top players: positions from 1 in their order
\* (selectedById is the admin of the request, taken to be the user
\* processExpiredCompetitions falls back to)
WinnersData(competitionId, topPlayers) ==
  [i \in DOMAIN topPlayers |->
     [competitionId |-> competitionId,
      userId |-> topPlayers[i].userId,
      finalStreak |-> JsOr(topPlayers[i].bestHeadsStreak, 0),
      position |-> i,
      selectedById |-> SystemUserId]]

\* AutoSelectFind without the check of winnersSelected
AutoSelectFindIgnoresSelected(k, cap, id, topCount) ==
  /\ Admit(k, cap)
  /\ LET c == [NewCall("autoSelectWinners") EXCEPT !.competitionId = id,
                                                   !.topCount = topCount]
     IN  call' = [call EXCEPT ![k] =
                    IF id \notin DOMAIN competitions
                      THEN Responded(c, 404, "Competition not found")
                      ELSE IF competitions[id].isActive
                        THEN Responded(c, 400, "Cannot select winners for active competition")
                        ELSE [c EXCEPT !.pc = "settings"]]
  /\ UNCHANGED <<now, settings, competitions, sessions, flips, achievements,
                 req, winners, presetPrizes, last, auditLogs>>

\* POST /competitions/:id/auto-winners: SELECT the competition; 404 without
\* it, 400 when it is active, 400 when its winners are selected
AutoSelectFind(k, cap, id, topCount) ==
  /\ Admit(k, cap)
  /\ LET c == [NewCall("autoSelectWinners") EXCEPT !.competitionId = id,
                                                   !.topCount = topCount]
     IN  call' = [call EXCEPT ![k] =
                    IF id \notin DOMAIN competitions
                      THEN Responded(c, 404, "Competition not found")
                      ELSE IF competitions[id].isActive
                        THEN Responded(c, 400, "Cannot select winners for active competition")
                        ELSE IF competitions[id].winnersSelected
                          THEN Responded(c, 400, "Winners already selected for this competition")
                          ELSE [c EXCEPT !.pc = "settings"]]
  /\ UNCHANGED <<now, settings, competitions, sessions, flips, achievements,
                 req, winners, presetPrizes, last, auditLogs>>

\* SELECT the settings for the leaderboard threshold
AutoSelectSettings(k) ==
  /\ At(k, "autoSelectWinners", "settings")
  /\ call' = [call EXCEPT ![k].pc = "topPlayers", ![k].minStreak = MinStreak]
  /\ UNCHANGED <<now, settings, competitions, sessions, flips, achievements,
                 req, spent, winners, presetPrizes, last, auditLogs>>

\* SELECT the top players; 400 when there is none
AutoSelectTopPlayers(k) ==
  /\ At(k, "autoSelectWinners", "topPlayers")
  /\ \E topPlayers \in TopPlayers(call[k].competitionId, call[k].minStreak,
                                  call[k].topCount) :
       call' = IF Len(topPlayers) = 0
                 THEN [call EXCEPT ![k] =
                         Responded(@, 400, "No eligible players found for this competition")]
                 ELSE [call EXCEPT ![k].pc = "insert",
                                   ![k].topPlayers = topPlayers]
  /\ UNCHANGED <<now, settings, competitions, sessions, flips, achievements,
                 req, spent, winners, presetPrizes, last, auditLogs>>

\* INSERT the winner rows
AutoSelectInsert(k) ==
  /\ At(k, "autoSelectWinners", "insert")
  /\ winners' = winners \o WinnersData(call[k].competitionId, call[k].topPlayers)
  /\ call' = [call EXCEPT ![k].pc = "update",
                          ![k].inserted = Len(winners) + 1 .. Len(winners')]
  /\ UNCHANGED <<now, settings, competitions, sessions, flips, achievements,
                 req, spent, presetPrizes, last, auditLogs>>

\* UPDATE the competition: winners selected, the first of them the winner
AutoSelectUpdate(k) ==
  /\ At(k, "autoSelectWinners", "update")
  /\ competitions' = [competitions EXCEPT
                        ![call[k].competitionId].winnersSelected = TRUE,
                        ![call[k].competitionId].winnerUserId =
                           call[k].topPlayers[1].userId]
  /\ call' = [call EXCEPT ![k] = Responded(@, 200, "none")]
  /\ UNCHANGED <<now, settings, sessions, flips, achievements, req, spent,
                 winners, presetPrizes, last, auditLogs>>

AutoSelectStep(k) ==
  \/ AutoSelectSettings(k)
  \/ AutoSelectTopPlayers(k)
  \/ AutoSelectInsert(k)
  \/ AutoSelectUpdate(k)

\* POST /competitions/process-expired -------------------------------------
\* ids of the competitions with isActive = true and endTime <= t
ExpiredCompetitions(t) ==
  {c \in DOMAIN competitions :
     competitions[c].isActive /\ competitions[c].endTime <= t}

\* the loop goes on to the next expired competition, or the call responds
NextExpired(c) ==
  IF c.expired = {} THEN Responded(c, 200, "none") ELSE [c EXCEPT !.pc = "end"]

\* now is taken and the leaderboard threshold read
ProcessExpiredSettings(k, cap) ==
  /\ Admit(k, cap)
  /\ call' = [call EXCEPT ![k] =
                [NewCall("processExpiredCompetitions") EXCEPT
                   !.pc = "find", !.minStreak = MinStreak]]
  /\ UNCHANGED <<now, settings, competitions, sessions, flips, achievements,
                 req, winners, presetPrizes, last, auditLogs>>

\* SELECT the expired active competitions as of the call's now
ProcessExpiredFind(k) ==
  /\ At(k, "processExpiredCompetitions", "find")
  /\ LET expired == ExpiredCompetitions(call[k].now)
     IN  call' = [call EXCEPT ![k] =
                    NextExpired([@ EXCEPT
                      !.expired = expired,
                      !.unselected =
                         {c \in expired : ~competitions[c].winnersSelected}])]
  /\ UNCHANGED <<now, settings, competitions, sessions, flips, achievements,
                 req, spent, winners, presetPrizes, last, auditLogs>>

\* ProcessExpiredEnd with the slip of leaving the competition active and
\* selecting winners whatever the row read said
ProcessExpiredEndKeepsActive(k) ==
  /\ At(k, "processExpiredCompetitions", "end")
  /\ \E c \in call[k].expired :
       call' = [call EXCEPT ![k].pc = "topPlayers",
                            ![k].competitionId = c,
                            ![k].expired = @ \ {c},
                            ![k].closed = @ \cup {c}]
  /\ UNCHANGED <<now, settings, competitions, sessions, flips, achievements,
                 req, spent, winners, presetPrizes, last, auditLogs>>

\* the next competition of the loop: UPDATE it to inactive; winners are
\* selected only if the row read had winnersSelected = false
ProcessExpiredEnd(k) ==
  /\ At(k, "processExpiredCompetitions", "end")
  /\ \E c \in call[k].expired :
       /\ competitions' = [competitions EXCEPT ![c].isActive = FALSE]
       /\ LET rest == [call[k] EXCEPT !.competitionId = c,
                                      !.expired = @ \ {c},
                                      !.closed = @ \cup {c}]
          IN  call' = [call EXCEPT ![k] =
                         IF c \in call[k].unselected
                           THEN [rest EXCEPT !.pc = "topPlayers"]
                           ELSE NextExpired(rest)]
  /\ UNCHANGED <<now, settings, sessions, flips, achievements, req, spent,
                 winners, presetPrizes, last, auditLogs>>

\* SELECT the top 3 players; with none the loop goes on
ProcessExpiredTopPlayers(k) ==
  /\ At(k, "processExpiredCompetitions", "topPlayers")
  /\ \E topPlayers \in TopPlayers(call[k].competitionId, call[k].minStreak,
                                  ExpiredTopCount) :
       call' = [call EXCEPT ![k] =
                  IF Len(topPlayers) = 0
                    THEN NextExpired(@)
                    ELSE [@ EXCEPT !.pc = "insert", !.topPlayers = topPlayers]]
  /\ UNCHANGED <<now, settings, competitions, sessions, flips, achievements,
                 req, spent, winners, presetPrizes, last, auditLogs>>

\* INSERT the winner rows
ProcessExpiredInsert(k) ==
  /\ At(k, "processExpiredCompetitions", "insert")
  /\ winners' = winners \o WinnersData(call[k].competitionId, call[k].topPlayers)
  /\ call' = [call EXCEPT ![k].pc = "update",
                          ![k].inserted = @ \cup (Len(winners) + 1 .. Len(winners'))]
  /\ UNCHANGED <<now, settings, competitions, sessions, flips, achievements,
                 req, spent, presetPrizes, last, auditLogs>>

\* ProcessExpiredUpdate with the slip of not naming the winner
ProcessExpiredUpdateNoWinner(k) ==
  /\ At(k, "processExpiredCompetitions", "update")
  /\ competitions' = [competitions EXCEPT
                        ![call[k].competitionId].winnersSelected = TRUE]
  /\ call' = [call EXCEPT ![k] = NextExpired(@)]
  /\ UNCHANGED <<now, settings, sessions, flips, achievements, req, spent,
                 winners, presetPrizes, last, auditLogs>>

\* UPDATE the competition: winners selected, the first of them the winner
ProcessExpiredUpdate(k) ==
  /\ At(k, "processExpiredCompetitions", "update")
  /\ competitions' = [competitions EXCEPT
                        ![call[k].competitionId].winnersSelected = TRUE,
                        ![call[k].competitionId].winnerUserId =
                           call[k].topPlayers[1].userId]
  /\ call' = [call EXCEPT ![k] = NextExpired(@)]
  /\ UNCHANGED <<now, settings, sessions, flips, achievements, req, spent,
                 winners, presetPrizes, last, auditLogs>>

ProcessExpiredStep(k) ==
  \/ ProcessExpiredFind(k)
  \/ ProcessExpiredEnd(k)
  \/ ProcessExpiredTopPlayers(k)
  \/ ProcessExpiredInsert(k)
  \/ ProcessExpiredUpdate(k)

\* POST /competitions/:id/winners (winners.ts, selectCompetitionWinners) --
\* a deleted row: the table keeps its place, as ids are never given again
DeletedWinner ==
  [competitionId |-> 0, userId |-> NoUser, finalStreak |-> 0, position |-> 0,
   selectedById |-> NoUser]

\* ids of the winner rows of a competition
WinnersOf(competitionId) ==
  {w \in DOMAIN winners : winners[w].competitionId = competitionId}

\* the winner rows of a competition, without their ids
WinnerRows(competitionId) == {winners[w] : w \in WinnersOf(competitionId)}

\* winner.finalStreak is undefined or 0
NoFinalStreak(winner) ==
  \/ "finalStreak" \notin DOMAIN winner
  \/ winner.finalStreak = 0

\* winner.finalStreak || session?.bestHeadsStreak || 0, session being the
\* row with id s, or no row when s = 0
FinalStreak(winner, s) ==
  IF ~NoFinalStreak(winner)
    THEN winner.finalStreak
    ELSE IF s = 0 THEN 0 ELSE JsOr(sessions[s].bestHeadsStreak, 0)

\* what the SELECT ... LIMIT 1 of the sessions of a user can return
FoundSessions(competitionId, userId) ==
  IF SessionsOf(competitionId, userId) = {}
    THEN {0}
    ELSE SessionsOf(competitionId, userId)

\* ManualSelectFind without the check of isActive
ManualSelectFindActive(k, cap, id, winnerList) ==
  /\ Admit(k, cap)
  /\ LET c == [NewCall("selectCompetitionWinners") EXCEPT
                 !.competitionId = id, !.winnerList = winnerList,
                 !.before = WinnerRows(id)]
     IN  call' = [call EXCEPT ![k] =
                    IF id \notin DOMAIN competitions
                      THEN Responded(c, 404, "Competition not found")
                      ELSE [c EXCEPT !.pc = "delete"]]
  /\ UNCHANGED <<now, settings, competitions, sessions, flips, achievements,
                 req, winners, presetPrizes, last, auditLogs>>

\* SELECT the competition; 404 without it, 400 when it is active
ManualSelectFind(k, cap, id, winnerList) ==
  /\ Admit(k, cap)
  /\ LET c == [NewCall("selectCompetitionWinners") EXCEPT
                 !.competitionId = id, !.winnerList = winnerList,
                 !.before = WinnerRows(id)]
     IN  call' = [call EXCEPT ![k] =
                    IF id \notin DOMAIN competitions
                      THEN Responded(c, 404, "Competition not found")
                      ELSE IF competitions[id].isActive
                        THEN Responded(c, 400, "Cannot select winners for an active competition. End it first.")
                        ELSE [c EXCEPT !.pc = "delete"]]
  /\ UNCHANGED <<now, settings, competitions, sessions, flips, achievements,
                 req, winners, presetPrizes, last, auditLogs>>

\* ManualSelectDelete that deletes nothing
ManualSelectDeleteNothing(k) ==
  /\ At(k, "selectCompetitionWinners", "delete")
  /\ call' = [call EXCEPT ![k].pc = "sessions"]
  /\ UNCHANGED <<now, settings, competitions, sessions, flips, achievements,
                 req, spent, winners, presetPrizes, last, auditLogs>>

\* DELETE the winner rows of the competition
ManualSelectDelete(k) ==
  /\ At(k, "selectCompetitionWinners", "delete")
  /\ winners' = [w \in DOMAIN winners |->
                   IF winners[w].competitionId = call[k].competitionId
                     THEN DeletedWinner
                     ELSE winners[w]]
  /\ call' = [call EXCEPT ![k].pc = "sessions"]
  /\ UNCHANGED <<now, settings, competitions, sessions, flips, achievements,
                 req, spent, presetPrizes, last, auditLogs>>

\* SELECT the session of each winner (Promise.all) and build the rows
ManualSelectSessions(k) ==
  /\ At(k, "selectCompetitionWinners", "sessions")
  /\ \E found \in [DOMAIN call[k].winnerList -> 0..Len(sessions)] :
       /\ \A i \in DOMAIN found :
            found[i] \in FoundSessions(call[k].competitionId,
                                       call[k].winnerList[i].userId)
       /\ call' = [call EXCEPT
                     ![k].pc = "insert",
                     ![k].winnersWithStreaks =
                        [i \in DOMAIN call[k].winnerList |->
                           [competitionId |-> call[k].competitionId,
                            userId |-> call[k].winnerList[i].userId,
                            finalStreak |->
                              FinalStreak(call[k].winnerList[i], found[i]),
                            position |-> i,
                            selectedById |-> SystemUserId]]]
  /\ UNCHANGED <<now, settings, competitions, sessions, flips, achievements,
                 req, spent, winners, presetPrizes, last, auditLogs>>

\* INSERT the new winner rows
ManualSelectInsert(k) ==
  /\ At(k, "selectCompetitionWinners", "insert")
  /\ winners' = winners \o call[k].winnersWithStreaks
  /\ call' = [call EXCEPT ![k].pc = "update",
                          ![k].inserted = Len(winners) + 1 .. Len(winners')]
  /\ UNCHANGED <<now, settings, competitions, sessions, flips, achievements,
                 req, spent, presetPrizes, last, auditLogs>>

\* UPDATE the competition: winners selected
ManualSelectUpdate(k) ==
  /\ At(k, "selectCompetitionWinners", "update")
  /\ competitions' = [competitions EXCEPT
                        ![call[k].competitionId].winnersSelected = TRUE]
  /\ LogAdminAction("SELECT_WINNERS", "competition", call[k].competitionId,
                    TRUE)
  /\ call' = [call EXCEPT ![k] = Responded(@, 200, "none")]
  /\ UNCHANGED <<now, settings, sessions, flips, achievements, req, spent,
                 winners, presetPrizes, last>>

\* a statement of the handler throws (the store is unreachable, a row is
\* refused): the catch block answers 500
ManualSelectStoreError(k) ==
  /\ call[k].op = "selectCompetitionWinners"
  /\ call[k].pc \in {"delete", "sessions", "insert", "update"}
  /\ LogAdminAction("SELECT_WINNERS", "competition", call[k].competitionId,
                    FALSE)
  /\ call' = [call EXCEPT ![k] = Responded(@, 500, "Failed to select winners")]
  /\ UNCHANGED <<now, settings, competitions, sessions, flips, achievements,
                 req, spent, winners, presetPrizes, last>>

ManualSelectStep(k) ==
  \/ ManualSelectDelete(k)
  \/ ManualSelectSessions(k)
  \/ ManualSelectInsert(k)
  \/ ManualSelectUpdate(k)

\* MarkPrizeDeliveredFind without the check of winnersSelected
MarkPrizeDeliveredFindUnchecked(k, cap, id) ==
  /\ Admit(k, cap)
  /\ LET c == [NewCall("markPrizeDelivered") EXCEPT !.competitionId = id]
     IN  call' = [call EXCEPT ![k] =
                    IF id \notin DOMAIN competitions
                      THEN Responded(c, 404, "Competition not found")
                      ELSE [c EXCEPT !.pc = "update"]]
  /\ UNCHANGED <<now, settings, competitions, sessions, flips, achievements,
                 req, winners, presetPrizes, last, auditLogs>>

\* POST /competitions/:id/prize-delivered (winners.ts, markPrizeDelivered) -
\* SELECT the competition; 404 without it, 400 before winners are selected
MarkPrizeDeliveredFind(k, cap, id) ==
  /\ Admit(k, cap)
  /\ LET c == [NewCall("markPrizeDelivered") EXCEPT !.competitionId = id]
     IN  call' = [call EXCEPT ![k] =
                    IF id \notin DOMAIN competitions
                      THEN Responded(c, 404, "Competition not found")
                      ELSE IF ~competitions[id].winnersSelected
                        THEN Responded(c, 400, "Cannot mark prize as delivered before selecting winners")
                        ELSE [c EXCEPT !.pc = "update"]]
  /\ UNCHANGED <<now, settings, competitions, sessions, flips, achievements,
                 req, winners, presetPrizes, last, auditLogs>>

\* MarkPrizeDeliveredUpdate as a switch: a delivered prize is undelivered
MarkPrizeDeliveredToggle(k) ==
  /\ At(k, "markPrizeDelivered", "update")
  /\ competitions' = [competitions EXCEPT
                        ![call[k].competitionId].prizeDelivered = ~@]
  /\ LogAdminAction("MARK_PRIZE_DELIVERED", "competition",
                    call[k].competitionId, TRUE)
  /\ call' = [call EXCEPT ![k] = Responded(@, 200, "none")]
  /\ UNCHANGED <<now, settings, sessions, flips, achievements, req, spent,
                 winners, presetPrizes, last>>

\* UPDATE the competition: prize delivered
MarkPrizeDeliveredUpdate(k) ==
  /\ At(k, "markPrizeDelivered", "update")
  /\ competitions' = [competitions EXCEPT
                        ![call[k].competitionId].prizeDelivered = TRUE]
  /\ LogAdminAction("MARK_PRIZE_DELIVERED", "competition",
                    call[k].competitionId, TRUE)
  /\ call' = [call EXCEPT ![k] = Responded(@, 200, "none")]
  /\ UNCHANGED <<now, settings, sessions, flips, achievements, req, spent,
                 winners, presetPrizes, last>>

\* GET /competitions and GET /competitions/:id (competitions.ts) ----------
\* the status derived from a competition row at time t
Status(comp, t) ==
  IF comp.isActive
    THEN IF comp.endTime > t THEN "active" ELSE "pending_end"
    ELSE IF comp.winnersSelected
      THEN IF comp.prizeDelivered THEN "completed" ELSE "winners_selected"
      ELSE "ended"

\* TimeRemaining without the floor of 0
TimeRemainingUnclamped(comp, t) ==
  IF comp.isActive THEN comp.endTime - t ELSE 0

\* comp.isActive ? Math.max(0, endTime - now) : 0
TimeRemaining(comp, t) ==
  IF comp.isActive THEN Max(0, comp.endTime - t) ELSE 0

\* getCompetitionDetails: SELECT the competition; 404 without it
GetCompetitionDetailsFind(k, cap, id) ==
  /\ Admit(k, cap)
  /\ LET c == [NewCall("getCompetitionDetails") EXCEPT !.competitionId = id]
     IN  call' = [call EXCEPT ![k] =
                    IF id \notin DOMAIN competitions
                      THEN Responded(c, 404, "Competition not found")
                      ELSE [c EXCEPT !.pc = "respond",
                                     !.competition = competitions[id]]]
  /\ UNCHANGED <<now, settings, competitions, sessions, flips, achievements,
                 req, winners, presetPrizes, last, auditLogs>>

\* after the reads of the settings, the leaderboard and the winners: the
\* clock is read and the row selected first is answered with its status
GetCompetitionDetailsRespond(k) ==
  /\ At(k, "getCompetitionDetails", "respond")
  /\ call' = [call EXCEPT ![k] =
                [Responded(@, 200, "none") EXCEPT
                   !.now = now,
                   !.derived =
                      [status |-> Status(call[k].competition, now),
                       timeRemaining |->
                         TimeRemaining(call[k].competition, now)]]]
  /\ UNCHANGED <<now, settings, competitions, sessions, flips, achievements,
                 req, spent, winners, presetPrizes, last, auditLogs>>

\* GET /leaderboard (leaderboard.ts, getLeaderboard) ------------------------
\* ORDER BY bestHeadsStreak DESC, totalHeads DESC: b comes before a
AheadOnBoard(b, a) ==
  \/ sessions[b].bestHeadsStreak > sessions[a].bestHeadsStreak
  \/ /\ sessions[b].bestHeadsStreak = sessions[a].bestHeadsStreak
     /\ sessions[b].totalHeads > sessions[a].totalHeads

\* the results ORDER BY ... LIMIT n can give on the session ids S: rows
\* equal in both keys come in any order
RECURSIVE BoardOrders(_, _)
BoardOrders(S, n) ==
  IF n = 0 \/ S = {}
    THEN {<< >>}
    ELSE UNION {{<<s>> \o rest : rest \in BoardOrders(S \ {s}, n - 1)} :
                  s \in {a \in S : \A b \in S : ~AheadOnBoard(b, a)}}

\* the formatted entries: rank is the index of the row, from 1
Leaderboard(order) ==
  [i \in DOMAIN order |->
     [rank |-> i,
      userId |-> sessions[order[i]].userId,
      bestHeadsStreak |-> JsOr(sessions[order[i]].bestHeadsStreak, 0),
      totalHeads |-> JsOr(sessions[order[i]].totalHeads, 0)]]

\* the competitions the query without competitionId can find at time t
CurrentCompetitions(t) ==
  {c \in DOMAIN competitions :
     /\ competitions[c].isActive
     /\ competitions[c].startTime <= t
     /\ competitions[c].endTime >= t}

\* SELECT the settings: the threshold, the user, the limit and the
\* competitionId of the query (0 without it) are taken
GetLeaderboardSettings(k, cap, userId, limit, query) ==
  /\ Admit(k, cap)
  /\ call' = [call EXCEPT ![k] =
                [NewCall("getLeaderboard") EXCEPT
                   !.pc = "competition", !.userId = userId, !.limit = limit,
                   !.query = query, !.minStreak = MinStreak]]
  /\ UNCHANGED <<now, settings, competitions, sessions, flips, achievements,
                 req, winners, presetPrizes, last, auditLogs>>

\* SELECT the competition of the query, or one that is active now; without
\* it the answer is the empty leaderboard and no rank
GetLeaderboardCompetition(k) ==
  /\ At(k, "getLeaderboard", "competition")
  /\ LET found == IF call[k].query # 0
                    THEN {call[k].query} \cap DOMAIN competitions
                    ELSE CurrentCompetitions(now)
     IN  IF found = {}
           THEN call' = [call EXCEPT ![k] = Responded(@, 200, "none")]
           ELSE \E c \in found :
                  call' = [call EXCEPT ![k].pc = "entries",
                                       ![k].competitionId = c]
  /\ UNCHANGED <<now, settings, competitions, sessions, flips, achievements,
                 req, spent, winners, presetPrizes, last, auditLogs>>

\* SELECT the entries: the eligible sessions in order, cut at the limit; a
\* request without a user is answered
GetLeaderboardEntries(k) ==
  /\ At(k, "getLeaderboard", "entries")
  /\ LET eligible == EligibleSessions(call[k].competitionId, call[k].minStreak)
     IN  \E order \in BoardOrders(eligible,
                                  Min(call[k].limit, Cardinality(eligible))) :
           call' = [call EXCEPT ![k] =
                      IF call[k].userId = NoUser
                        THEN [Responded(@, 200, "none") EXCEPT
                                !.leaderboard = Leaderboard(order)]
                        ELSE [@ EXCEPT !.pc = "userSession",
                                       !.leaderboard = Leaderboard(order)]]
  /\ UNCHANGED <<now, settings, competitions, sessions, flips, achievements,
                 req, spent, winners, presetPrizes, last, auditLogs>>

\* SELECT a session of the user in the competition LIMIT 1; without one, or
\* with one under the threshold, the answer has no rank
GetLeaderboardUserSession(k) ==
  /\ At(k, "getLeaderboard", "userSession")
  /\ LET mine == SessionsOf(call[k].competitionId, call[k].userId)
     IN  IF mine = {}
           THEN call' = [call EXCEPT ![k] = Responded(@, 200, "none")]
           ELSE \E s \in mine :
                  call' = [call EXCEPT ![k] =
                             IF sessions[s].bestHeadsStreak >= call[k].minStreak
                               THEN [@ EXCEPT
                                       !.pc = "betterUsers",
                                       !.userSession =
                                          [bestHeadsStreak |->
                                             sessions[s].bestHeadsStreak,
                                           totalHeads |->
                                             sessions[s].totalHeads]]
                               ELSE Responded(@, 200, "none")]
  /\ UNCHANGED <<now, settings, competitions, sessions, flips, achievements,
                 req, spent, winners, presetPrizes, last, auditLogs>>

\* BetterUsers counting the sessions that are level with the user too
BetterUsersOrLevel(competitionId, minStreak, userSession) ==
  {s \in EligibleSessions(competitionId, minStreak) :
     \/ sessions[s].bestHeadsStreak > userSession.bestHeadsStreak
     \/ /\ sessions[s].bestHeadsStreak = userSession.bestHeadsStreak
        /\ sessions[s].totalHeads >= JsOr(userSession.totalHeads, 0)}

\* the sessions SELECT count(*) counts: eligible, with a greater best
\* streak, or the same and more heads
BetterUsers(competitionId, minStreak, userSession) ==
  {s \in EligibleSessions(competitionId, minStreak) :
     \/ sessions[s].bestHeadsStreak > userSession.bestHeadsStreak
     \/ /\ sessions[s].bestHeadsStreak = userSession.bestHeadsStreak
        /\ sessions[s].totalHeads > JsOr(userSession.totalHeads, 0)}

\* SELECT count(*) of the better sessions: the rank is one more
GetLeaderboardBetterUsers(k) ==
  /\ At(k, "getLeaderboard", "betterUsers")
  /\ LET count == Cardinality(BetterUsers(call[k].competitionId,
                                          call[k].minStreak,
                                          call[k].userSession))
     IN  call' = [call EXCEPT ![k] =
                    [Responded(@, 200, "none") EXCEPT
                       !.userRank =
                          [isNull |-> FALSE,
                           rank |-> JsOr(count, 0) + 1,
                           bestHeadsStreak |->
                             call[k].userSession.bestHeadsStreak,
                           totalHeads |->
                             JsOr(call[k].userSession.totalHeads, 0)]]]
  /\ UNCHANGED <<now, settings, competitions, sessions, flips, achievements,
                 req, spent, winners, presetPrizes, last, auditLogs>>

GetLeaderboardStep(k) ==
  \/ GetLeaderboardCompetition(k)
  \/ GetLeaderboardEntries(k)
  \/ GetLeaderboardUserSession(k)
  \/ GetLeaderboardBetterUsers(k)

\* POST /admin/reset (admin.ts, resetDailyStats) --------------------------
\* the clock is read, the action logged and success answered; no table is
\* written
ResetDailyStats(k, cap) ==
  /\ Admit(k, cap)
  /\ LogAdminAction("UPDATE_SETTINGS", "daily_stats", 0, TRUE)
  /\ call' = [call EXCEPT ![k] =
                Responded(NewCall("resetDailyStats"), 200, "none")]
  /\ UNCHANGED <<now, settings, competitions, sessions, flips, achievements,
                 req, winners, presetPrizes, last>>

\* preset prizes (prizes.ts) ----------------------------------------------
\* a deleted row: the table keeps its place, as ids are never given again
DeletedPrize ==
  [name |-> "deleted", description |-> Null, imageUrl |-> Null,
   isDefault |-> FALSE, isActive |-> FALSE, requiresAddress |-> FALSE]

\* ids of the rows with isDefault = true
DefaultIds == {p \in DOMAIN presetPrizes : presetPrizes[p].isDefault}

\* UPDATE ... SET isDefault = false WHERE isDefault = true
DefaultsCleared ==
  [p \in DOMAIN presetPrizes |-> [presetPrizes[p] EXCEPT !.isDefault = FALSE]]

\* a call of a prize handler leaves the other tables alone
PrizeFrame ==
  UNCHANGED <<now, settings, competitions, sessions, flips, achievements,
              req, winners, last, auditLogs>>

\* POST /prizes: with isDefault the defaults are cleared first
CreatePresetPrizeStart(k, cap, isDefault) ==
  /\ Admit(k, cap)
  /\ LET c == [NewCall("createPresetPrize") EXCEPT !.isDefault = isDefault]
     IN  IF isDefault
           THEN /\ presetPrizes' = DefaultsCleared
                /\ call' = [call EXCEPT ![k] = [c EXCEPT !.pc = "insert"]]
           ELSE /\ presetPrizes' = presetPrizes
                /\ call' = [call EXCEPT ![k] = [c EXCEPT !.pc = "insert"]]
  /\ PrizeFrame

\* INSERT the prize, active
CreatePresetPrizeInsert(k) ==
  /\ At(k, "createPresetPrize", "insert")
  /\ presetPrizes' =
       Append(presetPrizes,
              [name |-> "Gift Card", description |-> "A gift card",
               imageUrl |-> Null, isDefault |-> call[k].isDefault,
               isActive |-> TRUE, requiresAddress |-> FALSE])
  /\ call' = [call EXCEPT ![k] = Responded(@, 200, "none")]
  /\ UNCHANGED spent
  /\ PrizeFrame

\* PUT /prizes/:id: with isDefault the defaults are cleared first
UpdatePresetPrizeStart(k, cap, prizeId, isDefault, isActive) ==
  /\ Admit(k, cap)
  /\ LET c == [NewCall("updatePresetPrize") EXCEPT
                 !.prizeId = prizeId, !.isDefault = isDefault,
                 !.isActive = isActive]
     IN  call' = [call EXCEPT ![k] = [c EXCEPT !.pc = "update"]]
  /\ presetPrizes' = IF isDefault THEN DefaultsCleared ELSE presetPrizes
  /\ PrizeFrame

\* UPDATE the row of the id with the body; the result of the statement is
\* never empty, so the answer is 200 with or without such a row
UpdatePresetPrizeUpdate(k) ==
  /\ At(k, "updatePresetPrize", "update")
  /\ presetPrizes' =
       [p \in DOMAIN presetPrizes |->
          IF p = call[k].prizeId /\ presetPrizes[p] # DeletedPrize
            THEN [presetPrizes[p] EXCEPT
                    !.name = "Gift Card", !.description = "A gift card",
                    !.imageUrl = Null, !.isDefault = call[k].isDefault,
                    !.isActive = call[k].isActive]
            ELSE presetPrizes[p]]
  /\ call' = [call EXCEPT ![k] = Responded(@, 200, "none")]
  /\ UNCHANGED spent
  /\ PrizeFrame

\* DELETE /prizes/:id
DeletePresetPrize(k, cap, prizeId) ==
  /\ Admit(k, cap)
  /\ presetPrizes' =
       [p \in DOMAIN presetPrizes |->
          IF p = prizeId THEN DeletedPrize ELSE presetPrizes[p]]
  /\ call' = [call EXCEPT ![k] =
                Responded([NewCall("deletePresetPrize") EXCEPT
                             !.prizeId = prizeId], 200, "none")]
  /\ PrizeFrame

\* POST /prizes/:id/set-default: the defaults are cleared
SetDefaultPresetPrizeClear(k, cap, prizeId) ==
  /\ Admit(k, cap)
  /\ presetPrizes' = DefaultsCleared
  /\ call' = [call EXCEPT ![k] =
                [NewCall("setDefaultPresetPrize") EXCEPT
                   !.prizeId = prizeId, !.pc = "set"]]
  /\ PrizeFrame

\* UPDATE ... SET isDefault = true WHERE id = prizeId, and the answer
SetDefaultPresetPrizeSet(k) ==
  /\ At(k, "setDefaultPresetPrize", "set")
  /\ presetPrizes' =
       [p \in DOMAIN presetPrizes |->
          IF p = call[k].prizeId /\ presetPrizes[p] # DeletedPrize
            THEN [presetPrizes[p] EXCEPT !.isDefault = TRUE]
            ELSE presetPrizes[p]]
  /\ call' = [call EXCEPT ![k] = Responded(@, 200, "none")]
  /\ UNCHANGED spent
  /\ PrizeFrame

\* the response is delivered, the slot is free again and the call is noted
\* as the last one finished
CallFinish(k) ==
  /\ call[k].pc = "done"
  /\ last' = [op |-> call[k].op, now |-> call[k].now,
              status |-> call[k].status, closed |-> call[k].closed]
  /\ call' = [call EXCEPT ![k] = IdleCall]
  /\ UNCHANGED <<now, settings, competitions, sessions, flips, achievements,
                 req, spent, winners, presetPrizes, auditLogs>>

(***************************************************************************)
(* Databases the flip engine leaves behind.  runs[i] is the number of      *)
(* flips of user i, all heads: with the default settings the users played  *)
(* one after the other in competition 1, created at time 0, one flip every *)
(* 250 ms, and another 250 ms have passed.                                 *)
(***************************************************************************)
RECURSIVE SumTo(_, _)
SumTo(runs, i) == IF i = 0 THEN 0 ELSE runs[i] + SumTo(runs, i - 1)

OwnerOf(runs, j) ==
  CHOOSE i \in DOMAIN runs : SumTo(runs, i - 1) < j /\ j <= SumTo(runs, i)

PlayedFlips(runs) ==
  [j \in 1..SumTo(runs, Len(runs)) |->
     [sessionId |-> OwnerOf(runs, j), userId |-> OwnerOf(runs, j),
      result |-> "heads",
      streakCount |-> j - SumTo(runs, OwnerOf(runs, j) - 1),
      flippedAt |-> (j - 1) * MinFlipGapMs]]

PlayedSessions(runs) ==
  [i \in DOMAIN runs |->
     [competitionId |-> 1, userId |-> i,
      totalFlips |-> runs[i], totalHeads |-> runs[i], totalTails |-> 0,
      currentStreak |-> runs[i], bestHeadsStreak |-> runs[i],
      bestTailsStreak |-> 0, dailyFailsUsed |-> 0,
      lastFlipAt |-> (SumTo(runs, i) - 1) * MinFlipGapMs]]

PlayedAchievements(runs) ==
  LET played == PlayedFlips(runs)
      at == SelectSeq([j \in DOMAIN played |-> j],
                      LAMBDA j : AtMilestone(played[j].streakCount))
  IN  [a \in DOMAIN at |->
         [sessionId |-> played[at[a]].sessionId,
          userId |-> played[at[a]].userId,
          achievementType |-> played[at[a]].streakCount,
          streakValue |-> played[at[a]].streakCount,
          achievedAt |-> played[at[a]].flippedAt]]

PlayedDatabase(runs) ==
  /\ now = SumTo(runs, Len(runs)) * MinFlipGapMs
  /\ settings = IF Len(runs) = 0 THEN << >> ELSE <<FlipDefaultSettings>>
  /\ competitions =
       IF Len(runs) = 0
         THEN << >>
         ELSE <<[NewCompetition(0) EXCEPT
                   !.totalPlayers = Len(runs),
                   !.totalFlips = SumTo(runs, Len(runs))]>>
  /\ sessions = PlayedSessions(runs)
  /\ flips = PlayedFlips(runs)
  /\ achievements = PlayedAchievements(runs)
  /\ req = [r \in Requests |-> IdleRequest]
  /\ winners = << >>
  /\ call = [k \in Calls |-> IdleCall]
  /\ last = NoCall
  /\ auditLogs = << >>

(***************************************************************************)
(* Specifications.                                                         *)
(***************************************************************************)
\* overlapping requests on a free-running clock, from the empty and from
\* the warm database; the settings row is the one getSettings or the first
\* flip inserted and does not change
Next ==
  \/ Tick
  \/ GetSettings
  \/ GetCompetition
  \/ \E r \in Requests : FlipUnauthenticated(r)
  \/ \E r \in Requests : \E u \in Users : StartFlip(r, u, MaxFlipRequests)
  \/ \E r \in Requests : FlipStep(r)

Spec == (Init \/ WarmInit) /\ [][Next]_vars

\* one request at a time on a free-running clock, with settings updates
NextSeq ==
  \/ Tick
  \/ GetSettings
  \/ UpdateSettings
  \/ GetCompetition
  \/ FlipUnauthenticated(1)
  \/ \E u \in Users : StartFlip(1, u, MaxSeqRequests)
  \/ FlipStep(1)

SpecSeq == (Init \/ WarmInit) /\ [][NextSeq]_vars

\* one request at a time of a client that waits out the flip gap, from the
\* empty database; the settings row is the one the first flip inserts
NextStreak ==
  \/ PacedTick
  \/ GetCompetition
  \/ FlipUnauthenticated(1)
  \/ StartFlip(1, 1, MaxStreakRequests)
  \/ FlipStep(1)

SpecStreak == Init /\ [][NextStreak]_vars

\* the competition handlers, one call at a time, on the clock of half
\* competitions, from the empty and from a played database, with and
\* without preset prizes, with updates of the configured duration
LifeSeqInit ==
  /\ \E runs \in SeqRuns : PlayedDatabase(runs)
  /\ presetPrizes \in PrizeCatalogs
  /\ spent = NothingSpent

NextLifeSeq ==
  \/ LifeTick
  \/ \E updates \in DurationUpdates : UpdateSettingsWith(updates)
  \/ GetCompetitionFind(1, MaxSeqCalls)
  \/ GetCompetitionStep(1)
  \/ \E durationHours \in DurationHours : \E useDefaultPrize \in BOOLEAN :
       CreateCompetitionEndActive(1, MaxSeqCalls, durationHours, useDefaultPrize)
  \/ CreateCompetitionStep(1)
  \/ \E id \in 1..(Len(competitions) + 1) : EndCompetitionFind(1, MaxSeqCalls, id)
  \/ EndCompetitionStep(1)
  \/ CallFinish(1)

SpecLifeSeq == LifeSeqInit /\ [][NextLifeSeq]_vars

\* creating and ending competitions and selecting winners, one call at a
\* time, from played databases, with updates of the leaderboard threshold
WinSeqInit ==
  /\ \E runs \in WinRuns : PlayedDatabase(runs)
  /\ presetPrizes = SeededPrizes
  /\ spent = NothingSpent

NextWinSeq ==
  \/ LifeTick
  \/ \E updates \in StreakUpdates : UpdateSettingsWith(updates)
  \/ GetCompetitionFind(1, MaxWinCalls)
  \/ GetCompetitionStep(1)
  \/ \E id \in 1..(Len(competitions) + 1) : EndCompetitionFind(1, MaxWinCalls, id)
  \/ EndCompetitionStep(1)
  \/ \E id \in 1..(Len(competitions) + 1) : \E topCount \in TopCounts :
       AutoSelectFind(1, MaxWinCalls, id, topCount)
  \/ AutoSelectStep(1)
  \/ ProcessExpiredSettings(1, MaxWinCalls)
  \/ ProcessExpiredStep(1)
  \/ CallFinish(1)

SpecWinSeq == WinSeqInit /\ [][NextWinSeq]_vars

\* the whole life of a competition, one call at a time: ending it,
\* selecting winners automatically and by hand (with statements that may
\* throw), marking the prize delivered and reading the derived status
ManualSeqInit ==
  /\ PlayedDatabase(<<5, 5, 2>>)
  /\ presetPrizes = SeededPrizes
  /\ spent = NothingSpent

ManualTick ==
  /\ spent.ticks < MaxManualTicks
  /\ now' = now + LifeTickMs
  /\ spent' = [spent EXCEPT !.ticks = @ + 1]
  /\ UNCHANGED <<settings, competitions, sessions, flips, achievements, req, lifecycle>>

NextManualSeq ==
  \/ ManualTick
  \/ \E id \in 1..(Len(competitions) + 1) : EndCompetitionFind(1, MaxManualCalls, id)
  \/ EndCompetitionStep(1)
  \/ \E id \in 1..(Len(competitions) + 1) : \E topCount \in TopCounts :
       AutoSelectFind(1, MaxManualCalls, id, topCount)
  \/ AutoSelectStep(1)
  \/ \E id \in 1..(Len(competitions) + 1) : \E winnerList \in WinnerLists :
       ManualSelectFind(1, MaxManualCalls, id, winnerList)
  \/ ManualSelectStep(1)
  \/ ManualSelectStoreError(1)
  \/ \E id \in 1..(Len(competitions) + 1) :
       MarkPrizeDeliveredFind(1, MaxManualCalls, id)
  \/ MarkPrizeDeliveredUpdate(1)
  \/ ProcessExpiredSettings(1, MaxManualCalls)
  \/ ProcessExpiredStep(1)
  \/ \E id \in 1..(Len(competitions) + 1) :
       GetCompetitionDetailsFind(1, MaxManualCalls, id)
  \/ GetCompetitionDetailsRespond(1)
  \/ CallFinish(1)

SpecManualSeq == ManualSeqInit /\ [][NextManualSeq]_vars

\* overlapping calls of the three handlers that record winners, from a
\* played database whose competition expires after two steps of the clock
NextSelect ==
  \/ ManualTick
  \/ \E k \in Calls : \E id \in 1..(Len(competitions) + 1) :
       \E topCount \in TopCounts : AutoSelectFind(k, MaxSelectCalls, id, topCount)
  \/ \E k \in Calls : AutoSelectStep(k)
  \/ \E k \in Calls : \E id \in 1..(Len(competitions) + 1) :
       \E winnerList \in WinnerLists :
         ManualSelectFind(k, MaxSelectCalls, id, winnerList)
  \/ \E k \in Calls : ManualSelectStep(k)
  \/ \E k \in Calls : ManualSelectStoreError(k)
  \/ \E k \in Calls : ProcessExpiredSettings(k, MaxSelectCalls)
  \/ \E k \in Calls : ProcessExpiredStep(k)
  \/ \E k \in Calls : CallFinish(k)

SpecSelect == ManualSeqInit /\ [][NextSelect]_vars

\* the handlers of the preset prizes, one call at a time and overlapping,
\* from the table before and after the migration's rows
PrizeInit ==
  /\ PlayedDatabase(<< >>)
  /\ presetPrizes \in PrizeCatalogs
  /\ spent = NothingSpent

PrizeCalls(k) ==
  \/ \E isDefault \in BOOLEAN : CreatePresetPrizeStart(k, MaxPrizeCalls, isDefault)
  \/ CreatePresetPrizeInsert(k)
  \/ \E prizeId \in 1..(Len(presetPrizes) + 1) : \E isDefault, isActive \in BOOLEAN :
       UpdatePresetPrizeStart(k, MaxPrizeCalls, prizeId, isDefault, isActive)
  \/ UpdatePresetPrizeUpdate(k)
  \/ \E prizeId \in 1..(Len(presetPrizes) + 1) :
       DeletePresetPrize(k, MaxPrizeCalls, prizeId)
  \/ \E prizeId \in 1..(Len(presetPrizes) + 1) :
       SetDefaultPresetPrizeClear(k, MaxPrizeCalls, prizeId)
  \/ SetDefaultPresetPrizeSet(k)
  \/ CallFinish(k)

NextPrizeSeq == PrizeCalls(1)

SpecPrizeSeq == PrizeInit /\ [][NextPrizeSeq]_vars

NextPrize == \E k \in Calls : PrizeCalls(k)

SpecPrize == PrizeInit /\ [][NextPrize]_vars

\* the settings handlers alone, called with values in and out of range
NextSettings ==
  \/ GetSettings
  \/ \E updates \in RangeUpdates : UpdateSettingsWith(updates)

SpecSettings == Init /\ [][NextSettings]_vars

\* overlapping calls of the competition handlers on the clock of half
\* competitions, from the empty and from a played database
LifeInit ==
  /\ \E runs \in SeqRuns : PlayedDatabase(runs)
  /\ presetPrizes = SeededPrizes
  /\ spent = NothingSpent

NextLife ==
  \/ LifeTick
  \/ \E k \in Calls : GetCompetitionFind(k, MaxLifeCalls)
  \/ \E k \in Calls : GetCompetitionStep(k)
  \/ \E k \in Calls : GetCompetitionStaleStep(k)
  \/ \E k \in Calls : \E durationHours \in DurationHours :
       \E useDefaultPrize \in BOOLEAN :
         CreateCompetitionEndActive(k, MaxLifeCalls, durationHours, useDefaultPrize)
  \/ \E k \in Calls : CreateCompetitionStep(k)
  \/ \E k \in Calls : \E id \in 1..(Len(competitions) + 1) :
       EndCompetitionFind(k, MaxLifeCalls, id)
  \/ \E k \in Calls : EndCompetitionStep(k)
  \/ \E k \in Calls : ProcessExpiredSettings(k, MaxLifeCalls)
  \/ \E k \in Calls : ProcessExpiredStep(k)
  \/ \E k \in Calls : CallFinish(k)

SpecLife == LifeInit /\ [][NextLife]_vars

\* the leaderboard and the reset of the daily statistics, one request at a
\* time: users 1 and 2 flip, the threshold is updated and the leaderboard is asked
\* for between flips, from a played database with two level sessions and
\* from the database of a user at the daily fail limit
BoardInit ==
  /\ \/ PlayedDatabase(<<5, 5, 2>>) /\ presetPrizes = SeededPrizes
     \/ WarmDatabase
  /\ spent = NothingSpent

Quiescent == InFlight = {} /\ call[1].pc = "idle"

NextBoard ==
  \/ PacedTick
  \/ \E u \in 1..2 : Quiescent /\ StartFlip(1, u, MaxBoardRequests)
  \/ FlipStep(1)
  \/ \E updates \in StreakUpdates : Quiescent /\ UpdateSettingsWith(updates)
  \/ \E userId \in BoardUsers : \E limit \in Limits : \E query \in 0..2 :
       InFlight = {}
         /\ GetLeaderboardSettings(1, MaxBoardCalls, userId, limit, query)
  \/ GetLeaderboardStep(1)
  \/ InFlight = {} /\ ResetDailyStats(1, MaxBoardCalls)
  \/ CallFinish(1)

SpecBoard == BoardInit /\ [][NextBoard]_vars

\* flips of users 1 and 2, one at a time, that overlap the calls of
\* endCompetition, from the databases of SpecBoard
NextClose ==
  \/ PacedTick
  \/ \E u \in 1..2 : StartFlip(1, u, MaxCloseRequests)
  \/ FlipStep(1)
  \/ \E id \in DOMAIN competitions : EndCompetitionFind(1, MaxCloseCalls, id)
  \/ EndCompetitionStep(1)
  \/ CallFinish(1)

SpecClose == BoardInit /\ [][NextClose]_vars

\* overlapping flips of users 1 and 2 at one time of the clock, from the
\* database of a user at the daily fail limit and from the database of a
\* user who has played four heads
RaceInit ==
  /\ \/ PlayedDatabase(<<4>>) /\ presetPrizes = SeededPrizes
     \/ WarmDatabase
  /\ spent = NothingSpent

NextRace ==
  \/ \E r \in Requests : \E u \in 1..2 : StartFlip(r, u, MaxRaceRequests)
  \/ \E r \in Requests : FlipStep(r)

SpecRace == RaceInit /\ [][NextRace]_vars

\* flips of user 1, one at a time, under a daily fail limit that is set
\* before the first session exists and stays as it is
NextLimit ==
  \/ PacedTick
  \/ GetCompetition
  \/ \E updates \in LimitUpdates :
       sessions = << >> /\ UpdateSettingsWith(updates)
  \/ StartFlip(1, 1, MaxLimitRequests)
  \/ FlipStep(1)

SpecLimit == (Init \/ WarmInit) /\ [][NextLimit]_vars

\* the played database after POST /competitions/1/end: SpecManualSeq
\* reaches it with one call of endCompetition
EndedDatabase(runs) ==
  /\ now = SumTo(runs, Len(runs)) * MinFlipGapMs
  /\ settings = <<FlipDefaultSettings>>
  /\ competitions = <<[NewCompetition(0) EXCEPT
                         !.totalPlayers = Len(runs),
                         !.totalFlips = SumTo(runs, Len(runs)),
                         !.isActive = FALSE,
                         !.endTime = now]>>
  /\ sessions = PlayedSessions(runs)
  /\ flips = PlayedFlips(runs)
  /\ achievements = PlayedAchievements(runs)
  /\ req = [r \in Requests |-> IdleRequest]
  /\ winners = << >>
  /\ presetPrizes = SeededPrizes
  /\ call = [k \in Calls |-> IdleCall]
  /\ last = [op |-> "endCompetition", now |-> now, status |-> 200,
             closed |-> {}]
  /\ auditLogs = << >>

WinnersInit ==
  /\ \/ PlayedDatabase(<<5, 5, 2>>) /\ presetPrizes = SeededPrizes
     \/ EndedDatabase(<<5, 5, 2>>)
  /\ spent = NothingSpent

\* overlapping calls of the handlers that end and create competitions and
\* select winners, from the played database of SpecManualSeq, as it is and
\* with its competition ended; competitions
\* are created with the default duration and prize and the default number
\* of winners is selected
NextWinners ==
  \/ ManualTick
  \/ \E k \in Calls : \E id \in DOMAIN competitions :
       EndCompetitionFind(k, MaxWinnersCalls, id)
  \/ \E k \in Calls : EndCompetitionStep(k)
  \/ \E k \in Calls :
       CreateCompetitionEndActive(k, MaxWinnersCalls, DefaultDurationHours,
                                  TRUE)
  \/ \E k \in Calls : CreateCompetitionStep(k)
  \/ \E k \in Calls : \E id \in DOMAIN competitions :
       AutoSelectFind(k, MaxWinnersCalls, id, DefaultTopCount)
  \/ \E k \in Calls : AutoSelectStep(k)
  \/ \E k \in Calls : \E id \in DOMAIN competitions :
       \E winnerList \in WinnerLists :
         ManualSelectFind(k, MaxWinnersCalls, id, winnerList)
  \/ \E k \in Calls : ManualSelectStep(k)
  \/ \E k \in Calls : ProcessExpiredSettings(k, MaxWinnersCalls)
  \/ \E k \in Calls : ProcessExpiredStep(k)
  \/ \E k \in Calls : CallFinish(k)

SpecWinners == WinnersInit /\ [][NextWinners]_vars

(***************************************************************************)
(* Properties.                                                             *)
(***************************************************************************)
\* the request in slot r has written its session update
Applied(r) ==
  \/ req[r].pc \in {"incFlips", "checkAchievement", "insertAchievement"}
  \/ (req[r].pc = "done" /\ req[r].res.status = 200)

FlipsOfSession(s) == {f \in DOMAIN flips : flips[f].sessionId = s}

\* C1: in every reachable state every session row satisfies
\* totalFlips = totalHeads + totalTails, whatever the interleaving of flips
C1_TotalsAddUp ==
  \A s \in DOMAIN sessions :
    sessions[s].totalFlips = sessions[s].totalHeads + sessions[s].totalTails

\* two overlapping requests have both written the same session row, one of
\* them a tails flip
C1_Witness ==
  \E r1, r2 \in Requests :
    /\ r1 # r2
    /\ Applied(r1) /\ Applied(r2)
    /\ req[r1].sessionId = req[r2].sessionId
    /\ req[r1].userSession = req[r2].userSession
    /\ req[r1].result = "tails"
    /\ sessions[req[r1].sessionId].totalFlips >= 1

\* C2: bestHeadsStreak and bestTailsStreak of a session never decrease from
\* one state to the next
C2_BestNeverDecreases ==
  [][\A s \in DOMAIN sessions :
       /\ sessions'[s].bestHeadsStreak >= sessions[s].bestHeadsStreak
       /\ sessions'[s].bestTailsStreak >= sessions[s].bestTailsStreak]_vars

\* C3: no two accepted flips are applied to the same row as it was read
\* before either, and once no update of a session is pending its counters
\* are those of a one-at-a-time execution of its recorded flips
C3_Serialized ==
  /\ \A r1, r2 \in Requests :
       (r1 # r2 /\ Applied(r1) /\ Applied(r2)
          /\ req[r1].sessionId = req[r2].sessionId)
       => req[r1].userSession # req[r2].userSession
  /\ \A s \in DOMAIN sessions :
       (\A r \in Requests :
          ~(req[r].pc = "updateSession" /\ req[r].sessionId = s))
       => /\ sessions[s].totalFlips = Cardinality(FlipsOfSession(s))
          /\ sessions[s].totalHeads =
               Cardinality({f \in FlipsOfSession(s) : flips[f].result = "heads"})
          /\ sessions[s].totalTails =
               Cardinality({f \in FlipsOfSession(s) : flips[f].result = "tails"})

\* C4: the session update of an accepted flip sets currentStreak to
\* previous+1 on heads with previous > 0, to 1 on heads with previous <= 0,
\* to previous-1 on tails with previous < 0 and to -1 on tails with
\* previous >= 0, previous being the currentStreak the request read
C4_StreakUpdate ==
  [][\A r \in Requests :
       (req[r].pc = "updateSession" /\ req'[r].pc = "incFlips")
       => LET previous == req[r].userSession.currentStreak
              new == sessions'[req[r].sessionId].currentStreak
          IN  /\ (req[r].result = "heads" /\ previous > 0) => new = previous + 1
              /\ (req[r].result = "heads" /\ previous <= 0) => new = 1
              /\ (req[r].result = "tails" /\ previous < 0) => new = previous - 1
              /\ (req[r].result = "tails" /\ previous >= 0) => new = -1]_vars

\* a heads flip on a tails run has been written: the run restarts at 1
C4_Witness ==
  \E r \in Requests :
    /\ req[r].pc = "incFlips"
    /\ req[r].result = "heads"
    /\ req[r].userSession.currentStreak < 0
    /\ sessions[req[r].sessionId].currentStreak = 1

\* C5: the step that rejects a flip (too fast, or daily fail limit) leaves
\* totalFlips, currentStreak, lastFlipAt and dailyFailsUsed of every session
\* as they were and inserts no Flip row
C5_RejectionChangesNothing ==
  [][\A r \in Requests :
       (req[r].pc = "decide" /\ req'[r].pc = "done")
       => /\ flips' = flips
          /\ DOMAIN sessions' = DOMAIN sessions
          /\ \A s \in DOMAIN sessions :
               /\ sessions'[s].totalFlips = sessions[s].totalFlips
               /\ sessions'[s].currentStreak = sessions[s].currentStreak
               /\ sessions'[s].lastFlipAt = sessions[s].lastFlipAt
               /\ sessions'[s].dailyFailsUsed = sessions[s].dailyFailsUsed]_vars

\* a tails draw was rejected at dailyFailsUsed = 3 (limit 3): the counter
\* is still 3 and no Flip row was added
C5_Witness ==
  \E r \in Requests :
    /\ req[r].pc = "done"
    /\ req[r].res.status = 429
    /\ req[r].res.error = "Daily fail limit reached"
    /\ req[r].settings.dailyFailLimit = 3
    /\ sessions[req[r].sessionId].dailyFailsUsed = 3
    /\ flips = WarmFlips

\* C6: for every configured dailyFailLimit >= 0 a tails draw is rejected
\* with 429 exactly when dailyFailsUsed >= dailyFailLimit, and a heads draw
\* is never rejected by the gate
C6_DailyGate ==
  [][\A r \in Requests :
       (req[r].pc = "decide" /\ req'[r].pc # "decide")
       => LET rejected == req'[r].pc = "done" /\ req'[r].res.status = 429
              used == req[r].userSession.dailyFailsUsed
              limit == req[r].settings.dailyFailLimit
          IN  /\ req'[r].result = "tails" => (rejected <=> used >= limit)
              /\ req'[r].result = "heads" => ~rejected]_vars

\* C7: with the settings fixed, any two recorded flips of a session are at
\* least max(250 ms, 60000 ms / maxFlipsPerMinute) apart, and a request
\* that comes sooner after the lastFlipAt it read is rejected with 429
C7_MinInterval ==
  [][/\ \A f, g \in DOMAIN flips' :
          (f < g /\ flips'[f].sessionId = flips'[g].sessionId)
          => LET d == Abs(flips'[g].flippedAt - flips'[f].flippedAt)
             IN  /\ d >= 250
                 /\ d * settings'[1].maxFlipsPerMinute >= 60000
     /\ \A r \in Requests :
          (/\ req[r].pc = "decide" /\ req'[r].pc # "decide"
           /\ req[r].userSession.lastFlipAt # NoTime
           /\ LET d == req[r].now - req[r].userSession.lastFlipAt
              IN  d < 250 \/ d * req[r].settings.maxFlipsPerMinute < 60000)
          => (req'[r].pc = "done" /\ req'[r].res.status = 429)]_vars

\* C8: there is at most one session row per (competition, user) pair, and
\* once no session creation is pending the competition's totalPlayers is
\* the number of users with a session in it
C8_OneSessionPerPair ==
  \A c \in DOMAIN competitions :
    /\ \A u \in Users : Cardinality(SessionsOf(c, u)) <= 1
    /\ (\A r \in Requests :
          ~(req[r].pc \in {"rereadSession", "incPlayers"}
              /\ req[r].competitionId = c))
       => competitions[c].totalPlayers =
            Cardinality({u \in Users : SessionsOf(c, u) # {}})

\* C9: there is at most one achievement row per (session, milestone type)
C9_OneAchievementPerType ==
  \A s \in DOMAIN sessions :
    \A t \in {5, 10, 15, 20} : Cardinality(AchievementsOf(s, t)) <= 1

\* C10: with the default settings and one request at a time, a session
\* whose flips are k heads has currentStreak = k and bestHeadsStreak = k;
\* an accepted flip reports the achievement of a threshold in {5,10,15,20}
\* exactly when it is a heads flip that brings the streak to that
\* threshold for the first time in the session, and nothing otherwise;
\* each threshold reached has exactly one row; isOnLeaderboard is true
\* exactly when the new bestHeadsStreak >= minStreakForLeaderboard
C10_StreakScenario ==
  /\ \A s \in DOMAIN sessions :
       (/\ FlipsOfSession(s) # {}
        /\ \A f \in FlipsOfSession(s) : flips[f].result = "heads"
        /\ req[1].pc # "updateSession")
       => /\ sessions[s].currentStreak = Cardinality(FlipsOfSession(s))
          /\ sessions[s].bestHeadsStreak = Cardinality(FlipsOfSession(s))
  /\ (req[1].pc = "done" /\ req[1].res.status = 200)
     => LET me == flips[Len(flips)]
            first == /\ me.result = "heads"
                     /\ me.streakCount \in {5, 10, 15, 20}
                     /\ ~\E f \in FlipsOfSession(me.sessionId) :
                           /\ f < Len(flips)
                           /\ flips[f].result = "heads"
                           /\ flips[f].streakCount = me.streakCount
        IN  /\ req[1].res.achievements =
                 IF first THEN {me.streakCount} ELSE {}
            /\ req[1].res.isOnLeaderboard
                 <=> (sessions[me.sessionId].bestHeadsStreak
                        >= settings[1].minStreakForLeaderboard)
  /\ InFlight = {}
     => \A s \in DOMAIN sessions : \A t \in {5, 10, 15, 20} :
          Cardinality(AchievementsOf(s, t)) =
            IF \E f \in FlipsOfSession(s) :
                 flips[f].result = "heads" /\ flips[f].streakCount = t
              THEN 1 ELSE 0

\* five heads in a row on a fresh session: currentStreak 5, bestHeadsStreak
\* 5, the streak_5 achievement reported, on the leaderboard
C10_Witness ==
  /\ req[1].pc = "done"
  /\ req[1].res.status = 200
  /\ req[1].res.achievements = {5}
  /\ req[1].res.isOnLeaderboard
  /\ settings = <<FlipDefaultSettings>>
  /\ sessions[req[1].sessionId].totalFlips = 5
  /\ sessions[req[1].sessionId].currentStreak = 5
  /\ sessions[req[1].sessionId].bestHeadsStreak = 5

\* C11: in every reachable state every session row satisfies
\* |currentStreak| <= max(totalHeads, totalTails), whatever the interleaving
\* of flips
C11_StreakWithinTotals ==
  \A s \in DOMAIN sessions :
    Abs(sessions[s].currentStreak)
      <= Max(sessions[s].totalHeads, sessions[s].totalTails)

\* a heads flip has extended a run of heads to the whole of the session's
\* heads count: the bound is met with equality
C11_Witness ==
  \E r \in Requests :
    /\ Applied(r)
    /\ req[r].result = "heads"
    /\ req[r].userSession.currentStreak >= 4
    /\ sessions[req[r].sessionId].totalTails >= 1
    /\ sessions[req[r].sessionId].currentStreak
         = sessions[req[r].sessionId].totalHeads

\* C12: at every time at most one competition has isActive = true with
\* startTime <= now <= endTime, whatever the interleaving of the calls
C12_OneActiveCompetition == Cardinality(ActiveCompetitions(now)) <= 1

\* C13: the competition GET /competition inserts when it finds none active
\* starts at the call's now and ends competitionDurationHours of the stored
\* settings later (24 hours when no settings are stored)
C13_ConfiguredDuration ==
  [][\A k \in Calls :
       (At(k, "getCompetition", "insert") /\ call'[k].pc = "reselect")
       => LET created == competitions'[Len(competitions')]
              hours == IF Len(settings) = 0
                         THEN 24
                         ELSE settings[1].competitionDurationHours
          IN  /\ Len(competitions') = Len(competitions) + 1
              /\ created.startTime = call[k].now
              /\ created.endTime = call[k].now + hours * 3600000]_vars

\* the competitions that were active and past their endTime when the call
\* in slot k arrived
StaleAtCall(k) ==
  {c \in DOMAIN competitions \ call[k].inserted :
     /\ competitions[c].endTime < call[k].now
     /\ competitions[c].isActive \/ c \in call[k].closed}

\* C14: when GET /competition has answered a call that arrived while a
\* competition was active with endTime < now, that competition is inactive
\* and the call has inserted a replacement which, if a preset prize is
\* default and active, carries its text, image and requiresAddress
C14_StaleReplaced ==
  \A k \in Calls :
    (At(k, "getCompetition", "done") /\ call[k].status = 200
       /\ StaleAtCall(k) # {})
    => /\ \A c \in StaleAtCall(k) : ~competitions[c].isActive
       /\ call[k].inserted # {}
       /\ DefaultPrizes # {}
          => \E c \in call[k].inserted : \E p \in DefaultPrizes :
               /\ competitions[c].prizeText = presetPrizes[p].description
               /\ competitions[c].prizeImageUrl = presetPrizes[p].imageUrl
               /\ competitions[c].requiresAddress = presetPrizes[p].requiresAddress

\* C15: POST /competition first sets every active competition inactive,
\* then inserts one competition that is active, starts at the call's now
\* and ends durationHours later, with null prize text and image when
\* useDefaultPrize is false or no preset prize is default and active; with
\* one call at a time exactly one competition is active when it answers
C15_CreateNew ==
  [][\A k \in Calls :
       /\ (call[k].pc = "idle" /\ call'[k].op = "createCompetition")
          => /\ DOMAIN competitions' = DOMAIN competitions
             /\ \A c \in DOMAIN competitions :
                  competitions'[c] = [competitions[c] EXCEPT !.isActive = FALSE]
       /\ (At(k, "createCompetition", "insert") /\ call'[k].pc = "reselect")
          => LET created == competitions'[Len(competitions')]
             IN  /\ competitions' = Append(competitions, created)
                 /\ created.isActive
                 /\ created.startTime = call[k].now
                 /\ created.endTime
                      = call[k].now + call[k].durationHours * 3600000
                 /\ (~call[k].useDefaultPrize \/ DefaultPrizes = {})
                    => /\ created.prizeText = Null
                       /\ created.prizeImageUrl = Null
       /\ (At(k, "createCompetition", "reselect") /\ call'[k].pc = "done")
          => /\ call'[k].status = 200
             /\ ActiveIds = call[k].inserted
             /\ Cardinality(ActiveIds) = 1
             /\ competitions' = competitions]_vars

\* POST /competition has answered after setting two active competitions
\* inactive: only the competition it inserted is active, with no prize
\* because none was asked for
C15_Witness ==
  \E k \in Calls :
    /\ At(k, "createCompetition", "done")
    /\ call[k].status = 200
    /\ ~call[k].useDefaultPrize
    /\ DefaultPrizes # {}
    /\ Cardinality(call[k].closed) = 2
    /\ \A c \in call[k].closed : ~competitions[c].isActive
    /\ ActiveIds = call[k].inserted
    /\ competitions[call[k].competitionId].prizeText = Null
    /\ competitions[call[k].competitionId].endTime
         = call[k].now + 12 * 3600000

\* C16: POST /competitions/:id/end answers 404 when no competition has
\* the id and 400 when the competition is inactive, and changes no row in
\* either case; otherwise it sets isActive = false and endTime = now on
\* that competition and changes no other competition, no session and no
\* winner row
C16_End ==
  [][\A k \in Calls :
       /\ (call[k].pc = "idle" /\ call'[k].op = "endCompetition")
          => LET id == call'[k].competitionId
             IN  /\ id \notin DOMAIN competitions
                    => call'[k].pc = "done" /\ call'[k].status = 404
                 /\ (id \in DOMAIN competitions /\ ~competitions[id].isActive)
                    => call'[k].pc = "done" /\ call'[k].status = 400
                 /\ (id \in DOMAIN competitions /\ competitions[id].isActive)
                    => call'[k].pc # "done"
                 /\ UNCHANGED <<competitions, sessions, winners>>
       /\ (At(k, "endCompetition", "leaderboard") /\ call'[k].pc = "update")
          => UNCHANGED <<competitions, sessions, winners>>
       /\ (At(k, "endCompetition", "update") /\ call'[k].pc = "done")
          => /\ call'[k].status = 200
             /\ competitions' =
                  [competitions EXCEPT
                     ![call[k].competitionId].isActive = FALSE,
                     ![call[k].competitionId].endTime = now]
             /\ UNCHANGED <<sessions, winners>>]_vars

\* a competition was ended half a day after its start while an earlier
\* competition had its winners recorded: it is inactive with endTime = now,
\* the earlier competition and the winner rows are as they were
C16_Witness ==
  \E k \in Calls :
    /\ At(k, "endCompetition", "done")
    /\ call[k].status = 200
    /\ call[k].competitionId = 2
    /\ ~competitions[2].isActive
    /\ competitions[2].endTime = now
    /\ competitions[2].startTime < now
    /\ competitions[1].winnersSelected
    /\ competitions[1].endTime = 86400000
    /\ Len(winners) >= 1
    /\ Len(sessions) >= 1

\* the winner rows W are the top limit (or fewer) of the sessions of the
\* competition with bestHeadsStreak >= minStreak: as many rows as
\* min(limit, eligible sessions), at positions 1..N, each with the user and
\* the bestHeadsStreak of an eligible session of its own, finalStreak not
\* increasing with the position, and no eligible session left out that
\* has a greater bestHeadsStreak than a recorded one
TopRecorded(W, competitionId, minStreak, limit) ==
  LET eligible == EligibleSessions(competitionId, minStreak)
      best(s) == sessions[s].bestHeadsStreak
  IN  /\ Cardinality(W) = Min(limit, Cardinality(eligible))
      /\ {winners[w].position : w \in W} = 1..Cardinality(W)
      /\ \A w \in W :
           /\ winners[w].competitionId = competitionId
           /\ winners[w].finalStreak >= minStreak
           /\ \E s \in eligible :
                /\ sessions[s].userId = winners[w].userId
                /\ best(s) = winners[w].finalStreak
           /\ Cardinality({s \in eligible : best(s) > winners[w].finalStreak})
                < winners[w].position
           /\ winners[w].position
                <= Cardinality({s \in eligible : best(s) >= winners[w].finalStreak})
      /\ \A v, w \in W :
           /\ v # w => winners[v].userId # winners[w].userId
           /\ winners[v].position < winners[w].position
              => winners[v].finalStreak >= winners[w].finalStreak
      /\ \A s \in eligible :
           (\E w \in W : best(s) > winners[w].finalStreak)
           => \E w \in W : winners[w].userId = sessions[s].userId

\* the competition has its winners selected and names the user of the row
\* at position 1 among W
WinnerNamed(W, competitionId) ==
  /\ competitions[competitionId].winnersSelected
  /\ \E w \in W :
       /\ winners[w].position = 1
       /\ competitions[competitionId].winnerUserId = winners[w].userId

\* C17: when POST /competitions/process-expired has answered, no
\* competition is active with endTime <= the call's now, and every
\* competition the call closed that it read with winnersSelected = false
\* and that has a session with bestHeadsStreak >= minStreak (the threshold
\* the handler read) has winner rows for its top 3 or fewer such sessions,
\* winnersSelected = true and winnerUserId the user at position 1
C17_ProcessExpired ==
  \A k \in Calls :
    (At(k, "processExpiredCompetitions", "done") /\ call[k].status = 200)
    => /\ ExpiredCompetitions(call[k].now) = {}
       /\ \A c \in call[k].closed \cap call[k].unselected :
            EligibleSessions(c, call[k].minStreak) # {}
            => /\ TopRecorded(WinnersOf(c), c, call[k].minStreak, 3)
               /\ WinnerNamed(WinnersOf(c), c)

\* the sweep has closed the competition of the users with runs of 5, 5 and
\* 2 heads at threshold 5: two winner rows, both with streak 5
C17_Witness ==
  \E k \in Calls :
    /\ At(k, "processExpiredCompetitions", "done")
    /\ call[k].status = 200
    /\ call[k].closed = {1}
    /\ call[k].minStreak = 5
    /\ sessions = PlayedSessions(<<5, 5, 2>>)
    /\ ~competitions[1].isActive
    /\ competitions[1].winnersSelected
    /\ competitions[1].winnerUserId \in {1, 2}
    /\ Len(winners) = 2
    /\ \A w \in DOMAIN winners : winners[w].finalStreak = 5

\* the call in slot k is a sweep that follows a finished sweep with no
\* other call in between and no competition whose endTime lies between
\* the two sweeps' clock readings
Rerun(k) ==
  /\ call[k].op = "processExpiredCompetitions"
  /\ last.op = "processExpiredCompetitions"
  /\ last.status = 200
  /\ \A c \in DOMAIN competitions :
       ~(/\ competitions[c].endTime > last.now
         /\ competitions[c].endTime <= call[k].now)

\* C18: a run of POST /competitions/process-expired that follows a
\* finished run, with no other call in between and no competition having
\* expired since, changes no competition, winner or session row
C18_Idempotent ==
  [][\A k \in Calls :
       (Rerun(k) \/ (call[k].pc = "idle" /\ Rerun(k)'))
       => UNCHANGED <<competitions, winners, sessions>>]_vars

\* a second sweep has answered, half a day after the sweep that closed
\* competition 1 and recorded its winners
C18_Witness ==
  \E k \in Calls :
    /\ At(k, "processExpiredCompetitions", "done")
    /\ Rerun(k)
    /\ last.closed = {1}
    /\ call[k].now > last.now
    /\ call[k].closed = {}
    /\ competitions[1].winnersSelected
    /\ Len(winners) >= 1

\* the call in slot k has just answered with a failure
Failed(k) == call'[k].pc = "done" /\ call'[k].status = 400

\* C19: POST /competitions/:id/auto-winners fails and changes no winner
\* row and no competition field when the competition is still active, when
\* its winners are already selected, or when no session of the competition
\* has bestHeadsStreak >= minStreak (the threshold the call read, which is
\* never below the stored one)
C19_AutoSelectFails ==
  [][\A k \in Calls :
       /\ (call[k].pc = "idle" /\ call'[k].op = "autoSelectWinners"
            /\ call'[k].competitionId \in DOMAIN competitions
            /\ (\/ competitions[call'[k].competitionId].isActive
                \/ competitions[call'[k].competitionId].winnersSelected))
           => Failed(k) /\ UNCHANGED <<competitions, winners>>
       /\ (At(k, "autoSelectWinners", "settings") /\ call'[k] # call[k])
           => /\ UNCHANGED <<competitions, winners>>
              /\ Len(settings) > 0
                   => call'[k].minStreak >= settings[1].minStreakForLeaderboard
       /\ (At(k, "autoSelectWinners", "topPlayers") /\ call'[k] # call[k]
            /\ EligibleSessions(call[k].competitionId, call[k].minStreak) = {})
           => Failed(k) /\ UNCHANGED <<competitions, winners>>]_vars

\* a second call for a competition whose winners were selected has failed
\* and the competition has the winners of the first call only
C19_Witness ==
  \E k \in Calls :
    /\ At(k, "autoSelectWinners", "done")
    /\ call[k].status = 400
    /\ call[k].error = "Winners already selected for this competition"
    /\ last.op = "autoSelectWinners" /\ last.status = 200
    /\ competitions[call[k].competitionId].winnersSelected
    /\ Len(winners) = Cardinality(WinnersOf(call[k].competitionId))
    /\ Len(winners) >= 1
    /\ Len(winners) <= call[k].topCount

\* C20: a successful POST /competitions/:id/auto-winners has recorded
\* N = min(topCount, number of eligible sessions) winners at positions
\* 1..N, each with its session's bestHeadsStreak (>= minStreak) as
\* finalStreak, finalStreak non-increasing in position, no eligible session
\* left out with a greater streak than a selected one, and it has set
\* winnersSelected and winnerUserId, the user at position 1
C20_AutoSelect ==
  \A k \in Calls :
    /\ At(k, "autoSelectWinners", "update")
        => TopRecorded(call[k].inserted, call[k].competitionId,
                       call[k].minStreak, call[k].topCount)
    /\ (At(k, "autoSelectWinners", "done") /\ call[k].status = 200)
        => /\ TopRecorded(call[k].inserted, call[k].competitionId,
                          call[k].minStreak, call[k].topCount)
           /\ WinnerNamed(call[k].inserted, call[k].competitionId)

\* streaks 12, 9, 9, 5, 2 with threshold 5 and topCount 3: winners with
\* streaks 12, 9, 9 at positions 1, 2, 3 and the user of the 12 as winner
C20_Witness ==
  \E k \in Calls :
    /\ At(k, "autoSelectWinners", "done")
    /\ call[k].status = 200
    /\ call[k].minStreak = 5
    /\ call[k].topCount = 3
    /\ Cardinality(EligibleSessions(call[k].competitionId, 5)) = 4
    /\ Len(winners) = 3
    /\ \A w \in 1..3 : winners[w].position = w
    /\ <<winners[1].finalStreak, winners[2].finalStreak,
         winners[3].finalStreak>> = <<12, 9, 9>>
    /\ competitions[call[k].competitionId].winnersSelected
    /\ competitions[call[k].competitionId].winnerUserId = winners[1].userId

\* no call of the competition and winner handlers is in progress
Quiet == \A k \in Calls : call[k].pc \in {"idle", "done"}

\* the positions of the winner rows of a competition are 1..N, N the number
\* of the rows
Contiguous(competitionId) ==
  /\ {winners[w].position : w \in WinnersOf(competitionId)}
       = 1..Cardinality(WinnersOf(competitionId))
  /\ \A v, w \in WinnersOf(competitionId) :
       winners[v].position = winners[w].position => v = w

\* C21: when no request is in progress, after any interleaving of
\* autoSelect, manualSelect and processExpired requests, the positions of
\* the winner rows of each competition are exactly 1..N without duplicates
C21_ContiguousPositions ==
  Quiet => \A c \in DOMAIN competitions : Contiguous(c)

\* the winner rows of a competition are the entries of list, the i-th at
\* position i
RowsAre(competitionId, list) ==
  /\ Cardinality(WinnersOf(competitionId)) = Len(list)
  /\ \A i \in DOMAIN list :
       \E w \in WinnersOf(competitionId) :
         /\ winners[w].position = i
         /\ winners[w].userId = list[i].userId

\* C22: POST /competitions/:id/winners fails without changing any state
\* when the competition is active; a call that succeeds leaves exactly the
\* supplied list as the winner rows of the competition, the i-th entry at
\* position i, and winnersSelected = true, whatever rows there were before
C22_ManualSelect ==
  [][\A k \in Calls :
       /\ (call[k].pc = "idle" /\ call'[k].op = "selectCompetitionWinners"
            /\ call'[k].competitionId \in DOMAIN competitions
            /\ competitions[call'[k].competitionId].isActive)
           => /\ call'[k].pc = "done" /\ call'[k].status = 400
              /\ UNCHANGED <<competitions, winners, sessions, settings,
                             presetPrizes>>
       /\ (At(k, "selectCompetitionWinners", "update")
            /\ call'[k].pc = "done" /\ call'[k].status = 200)
           => /\ RowsAre(call[k].competitionId, call[k].winnerList)'
              /\ competitions'[call[k].competitionId].winnersSelected]_vars

\* a manual selection has answered 200 for a competition that had other
\* winner rows when the call arrived
C22_Witness ==
  \E k \in Calls :
    /\ At(k, "selectCompetitionWinners", "done")
    /\ call[k].status = 200
    /\ call[k].before # {}
    /\ call[k].before # WinnerRows(call[k].competitionId)
    /\ RowsAre(call[k].competitionId, call[k].winnerList)
    /\ competitions[call[k].competitionId].winnersSelected

\* the finalStreak the claim gives the entry of a winner list: the
\* request's when it has one, else the bestHeadsStreak of the user's
\* session in the competition, else 0
ClaimedFinalStreak(competitionId, winner) ==
  IF "finalStreak" \in DOMAIN winner
    THEN {winner.finalStreak}
    ELSE IF SessionsOf(competitionId, winner.userId) = {}
      THEN {0}
      ELSE {sessions[s].bestHeadsStreak :
              s \in SessionsOf(competitionId, winner.userId)}

\* C23: in the rows a manual selection has inserted, the finalStreak of
\* every entry is the request's finalStreak when the request has one (0
\* included), else the bestHeadsStreak of the user's session, else 0
C23_FinalStreak ==
  \A k \in Calls :
    (At(k, "selectCompetitionWinners", "done") /\ call[k].status = 200)
    => \A i \in DOMAIN call[k].winnerList :
         \E w \in call[k].inserted :
           /\ winners[w].position = i
           /\ winners[w].finalStreak \in
                ClaimedFinalStreak(call[k].competitionId, call[k].winnerList[i])

\* C24: when POST /competitions/:id/winners has answered 500, the winner
\* rows of the competition are those it had when the call arrived
C24_AllOrNothing ==
  \A k \in Calls :
    (At(k, "selectCompetitionWinners", "done") /\ call[k].status = 500)
    => WinnerRows(call[k].competitionId) = call[k].before

\* C25: POST /competitions/:id/prize-delivered fails and changes nothing
\* when the competition's winnersSelected is false and otherwise sets
\* prizeDelivered = true; in every state every competition with
\* prizeDelivered has winnersSelected
C25_PrizeDelivered ==
  [][/\ \A k \in Calls :
          /\ (call[k].pc = "idle" /\ call'[k].op = "markPrizeDelivered"
               /\ call'[k].competitionId \in DOMAIN competitions
               /\ ~competitions[call'[k].competitionId].winnersSelected)
              => /\ call'[k].pc = "done" /\ call'[k].status = 400
                 /\ UNCHANGED <<competitions, winners, sessions, settings,
                                presetPrizes>>
          /\ (call[k].pc = "idle" /\ call'[k].op = "markPrizeDelivered"
               /\ call'[k].competitionId \in DOMAIN competitions
               /\ competitions[call'[k].competitionId].winnersSelected)
              => call'[k].pc = "update"
          /\ (At(k, "markPrizeDelivered", "update") /\ call'[k] # call[k])
              => /\ call'[k].pc = "done" /\ call'[k].status = 200
                 /\ competitions'[call[k].competitionId].prizeDelivered
     /\ \A c \in DOMAIN competitions' :
          competitions'[c].prizeDelivered => competitions'[c].winnersSelected]_vars

\* the prize of a competition with recorded winners has been marked
\* delivered
C25_Witness ==
  \E k \in Calls :
    /\ At(k, "markPrizeDelivered", "done")
    /\ call[k].status = 200
    /\ competitions[call[k].competitionId].prizeDelivered
    /\ competitions[call[k].competitionId].winnersSelected
    /\ Len(winners) >= 1

\* C26: no competition's isActive changes from false to true, and neither
\* its winnersSelected nor its prizeDelivered from true to false
C26_Forward ==
  [][\A c \in DOMAIN competitions :
       /\ c \in DOMAIN competitions'
       /\ ~competitions[c].isActive => ~competitions'[c].isActive
       /\ competitions[c].winnersSelected => competitions'[c].winnersSelected
       /\ competitions[c].prizeDelivered => competitions'[c].prizeDelivered]_vars

\* a competition has gone all the way: ended, winners selected, prize
\* delivered, and a later request for it has been answered
C26_Witness ==
  /\ last.op = "markPrizeDelivered"
  /\ last.status = 200
  /\ \E k \in Calls : call[k].pc = "done" /\ call[k].competitionId = 1
  /\ ~competitions[1].isActive
  /\ competitions[1].winnersSelected
  /\ competitions[1].prizeDelivered

\* C30: the status GET /competitions/:id answers for the row it read at the
\* time it read the clock: active before endTime, pending_end from endTime
\* on, and for an inactive row ended, winners_selected or completed by
\* winnersSelected and prizeDelivered; timeRemaining of an active row is
\* max(0, endTime - now)
C30_DerivedStatus ==
  \A k \in Calls :
    (At(k, "getCompetitionDetails", "done") /\ call[k].status = 200)
    => LET comp == call[k].competition
           t == call[k].now
           d == call[k].derived
       IN  /\ d.status \in {"active", "pending_end", "ended",
                            "winners_selected", "completed"}
           /\ (comp.isActive /\ comp.endTime > t) <=> d.status = "active"
           /\ (comp.isActive /\ comp.endTime <= t) <=> d.status = "pending_end"
           /\ (~comp.isActive /\ ~comp.winnersSelected) <=> d.status = "ended"
           /\ (~comp.isActive /\ comp.winnersSelected /\ ~comp.prizeDelivered)
                <=> d.status = "winners_selected"
           /\ (~comp.isActive /\ comp.winnersSelected /\ comp.prizeDelivered)
                <=> d.status = "completed"
           /\ comp.isActive
                => /\ d.timeRemaining >= 0
                   /\ d.timeRemaining >= comp.endTime - t
                   /\ d.timeRemaining \in {0, comp.endTime - t}

\* a competition read half a day past its endTime and still active is
\* answered as pending_end with no time remaining
C30_Witness ==
  \E k \in Calls :
    /\ At(k, "getCompetitionDetails", "done")
    /\ call[k].status = 200
    /\ call[k].competition.isActive
    /\ call[k].competition.endTime < call[k].now
    /\ call[k].derived = [status |-> "pending_end", timeRemaining |-> 0]

\* C27: when POST /prizes/:id/set-default has answered with success,
\* whether or not a prize has that id, exactly one preset prize has
\* isDefault = true
C27_OneDefaultAfterSet ==
  \A k \in Calls :
    (At(k, "setDefaultPresetPrize", "done") /\ call[k].status = 200)
    => Cardinality(DefaultIds) = 1

\* C28: at most one preset prize has isDefault = true
C28_AtMostOneDefault == Cardinality(DefaultIds) <= 1

\* C29: the stored settings have minStreakForLeaderboard >= 1,
\* competitionDurationHours >= 1, maxFlipsPerMinute >= 1 and
\* dailyFailLimit >= 0, and an update with a value outside these ranges
\* leaves them unchanged
C29_SettingsInRange ==
  \A i \in DOMAIN settings :
    /\ settings[i].minStreakForLeaderboard >= 1
    /\ settings[i].competitionDurationHours >= 1
    /\ settings[i].maxFlipsPerMinute >= 1
    /\ settings[i].dailyFailLimit >= 0

AheadOf(s, mine) ==
  \/ sessions[s].bestHeadsStreak > sessions[mine].bestHeadsStreak
  \/ /\ sessions[s].bestHeadsStreak = sessions[mine].bestHeadsStreak
     /\ sessions[s].totalHeads > sessions[mine].totalHeads

Answered(k) ==
  /\ call[k].op = "getLeaderboard" /\ call[k].pc = "done"
  /\ call[k].status = 200
  /\ call[k].userId # NoUser
  /\ call[k].competitionId \in DOMAIN competitions

\* C31: the answer of getLeaderboard to a user, when the competition is
\* found.  Without a session of the user in the competition, or with a best
\* heads streak under the threshold, userRank is null; otherwise its rank is
\* 1 + the number of the eligible sessions of the competition with a
\* greater best heads streak, or the same best heads streak and more heads.
C31_UserRank ==
  \A k \in Calls :
    Answered(k) =>
      LET mine == SessionsOf(call[k].competitionId, call[k].userId)
      IN  IF \A s \in mine : sessions[s].bestHeadsStreak < MinStreak
            THEN call[k].userRank.isNull
            ELSE \E s \in mine :
                   /\ ~call[k].userRank.isNull
                   /\ call[k].userRank.rank =
                        1 + Cardinality(
                              {e \in EligibleSessions(call[k].competitionId,
                                                      MinStreak) :
                                 AheadOf(e, s)})

\* a user is answered rank 2: a session level in the best heads streak has
\* more heads
C31_Witness ==
  \E k \in Calls :
    /\ Answered(k)
    /\ ~call[k].userRank.isNull
    /\ call[k].userRank.rank = 2
    /\ \E e \in EligibleSessions(call[k].competitionId, MinStreak) :
         /\ sessions[e].bestHeadsStreak = call[k].userRank.bestHeadsStreak
         /\ sessions[e].totalHeads > call[k].userRank.totalHeads

\* C40: in an answer of getLeaderboard to a user whose entry is in the
\* list, the rank of userRank is the rank of that entry - also when sessions
\* are level in the best heads streak and in the heads.
C40_RankInList ==
  \A k \in Calls :
    (Answered(k) /\ ~call[k].userRank.isNull) =>
      \A i \in DOMAIN call[k].leaderboard :
        call[k].leaderboard[i].userId = call[k].userId
          => call[k].leaderboard[i].rank = call[k].userRank.rank

\* C33: when resetDailyStats has answered success, the daily fail counter
\* of every session is 0.
C33_ResetClears ==
  \A k \in Calls :
    (call[k].op = "resetDailyStats" /\ call[k].pc = "done"
       /\ call[k].status = 200)
      => \A s \in DOMAIN sessions : sessions[s].dailyFailsUsed = 0

AuditedAs(op) ==
  IF op = "selectCompetitionWinners" THEN "SELECT_WINNERS"
  ELSE IF op = "autoSelectWinners" THEN "AUTO_SELECT_WINNERS"
  ELSE "MARK_PRIZE_DELIVERED"

Logged(action, resourceId) ==
  /\ Len(auditLogs') = Len(auditLogs) + 1
  /\ auditLogs'[Len(auditLogs')].userId = SystemUserId
  /\ auditLogs'[Len(auditLogs')].action = action
  /\ auditLogs'[Len(auditLogs')].resourceId = resourceId
  /\ auditLogs'[Len(auditLogs')].success

\* C32: a step in which the manual selection of winners, the automatic
\* selection of winners or the marking of the prize as delivered answers
\* success, or in which the settings row is updated, appends an entry to
\* the audit log that names the admin, the action and the competition (for
\* the settings, the action) and has success = true.
C32_Audited ==
  [][/\ \A k \in Calls :
         (/\ call[k].pc # "done" /\ call'[k].pc = "done"
          /\ call'[k].status = 200
          /\ call'[k].op \in {"selectCompetitionWinners", "autoSelectWinners",
                               "markPrizeDelivered"})
           => Logged(AuditedAs(call'[k].op), call'[k].competitionId)
     /\ (Len(settings) > 0 /\ settings' # settings)
           => Logged("UPDATE_SETTINGS", 0)]_vars

FlipsOf(s) == {f \in DOMAIN flips : flips[f].sessionId = s}

RECURSIVE SessionFlips(_, _)
SessionFlips(c, n) ==
  IF n = 0
    THEN 0
    ELSE SessionFlips(c, n - 1)
           + (IF sessions[n].competitionId = c THEN sessions[n].totalFlips ELSE 0)

\* C34: with no flip request in progress, every session has as many flip
\* records as its totalFlips says, and the totalFlips of every competition
\* is the sum of the totalFlips of its sessions.
C34_CountsAgree ==
  InFlight = {} =>
    /\ \A s \in DOMAIN sessions :
         Cardinality(FlipsOf(s)) = sessions[s].totalFlips
    /\ \A c \in DOMAIN competitions :
         competitions[c].totalFlips = SessionFlips(c, Len(sessions))

\* C35: no step changes or adds a session of a competition that is
\* inactive, or adds a flip or an achievement of such a session.
C35_ClosedIsFrozen ==
  [][\A c \in DOMAIN competitions :
       ~competitions[c].isActive =>
         /\ \A s \in DOMAIN sessions' :
              sessions'[s].competitionId = c
                => s \in DOMAIN sessions /\ sessions'[s] = sessions[s]
         /\ \A f \in DOMAIN flips' \ DOMAIN flips :
              sessions'[flips'[f].sessionId].competitionId # c
         /\ \A a \in DOMAIN achievements' \ DOMAIN achievements :
              sessions'[achievements'[a].sessionId].competitionId # c]_vars

\* C36: every competition with winnersSelected has a winner row at
\* position 1, and its winnerUserId is the user of that row.
C36_FirstPlace ==
  \A c \in DOMAIN competitions :
    competitions[c].winnersSelected =>
      \E w \in WinnersOf(c) :
        /\ winners[w].position = 1
        /\ competitions[c].winnerUserId = winners[w].userId

\* C37: for every session and every milestone k, an achievement of the
\* type streak_k exists for the session if and only if the best heads streak
\* of the session is at least k.  The claim is of every reachable state; it
\* is stated here of the states with no flip request in progress, which are
\* among them.
C37_AchievementIffBest ==
  InFlight = {} =>
    \A s \in DOMAIN sessions : \A k \in Milestones :
      AchievementsOf(s, k) # {} <=> sessions[s].bestHeadsStreak >= k

\* C38: under a daily fail limit that stays as it is, no session has more
\* daily fails than the limit, and a flip that is recorded for a session
\* with as many daily fails as the limit is heads: the update of such a
\* session leaves its daily fails alone and its current streak positive,
\* one more than before when that was positive.
C38_AtTheLimit ==
  [][/\ \A s \in DOMAIN sessions' :
          sessions'[s].dailyFailsUsed <= settings'[1].dailyFailLimit
     /\ \A f \in DOMAIN flips' \ DOMAIN flips :
          sessions[flips'[f].sessionId].dailyFailsUsed
              = settings[1].dailyFailLimit
            => flips'[f].result = "heads"
     /\ \A s \in DOMAIN sessions :
          (/\ sessions'[s] # sessions[s]
           /\ sessions[s].dailyFailsUsed = settings[1].dailyFailLimit)
            => /\ sessions'[s].dailyFailsUsed = sessions[s].dailyFailsUsed
               /\ sessions'[s].currentStreak > 0
               /\ sessions[s].currentStreak > 0
                    => sessions'[s].currentStreak = sessions[s].currentStreak + 1]_vars

\* C39: no competition is active and has its winners selected.
C39_SelectedIsClosed ==
  \A c \in DOMAIN competitions :
    competitions[c].winnersSelected => ~competitions[c].isActive

\* the winners of a competition were selected while a call of
\* createCompetition, still in progress, has made another one active
C39_Witness ==
  /\ \E c, d \in DOMAIN competitions :
       /\ competitions[c].winnersSelected /\ ~competitions[c].isActive
       /\ competitions[d].isActive
  /\ \E k \in Calls :
       /\ call[k].op = "createCompetition"
       /\ call[k].pc \notin {"idle", "done"}
  /\ \E k \in Calls :
       /\ call[k].op \in {"autoSelectWinners", "selectCompetitionWinners"}
       /\ call[k].pc = "done" /\ call[k].status = 200

====
